---------------------------- MODULE Spec2Model ----------------------------
(***************************************************************************)
(* A model of the docserver archive ("zup") writer, reader and pack        *)
(* drivers.  Bytes are naturals below 256, a byte string is a sequence of  *)
(* bytes, a file name is a byte string, a path is a sequence of names.     *)
(* A directory tree is a function from paths to entries.                   *)
(***************************************************************************)
EXTENDS Naturals, Sequences, FiniteSets, TLC

(***************************************************************************)
(* Bounds of the model.                                                    *)
(***************************************************************************)
\* the number of files and directories the documentation generator leaves
\* in one crate output directory
MaxEntries == 3

(***************************************************************************)
(* Byte strings.                                                           *)
(***************************************************************************)
Min2(a, b) == IF a < b THEN a ELSE b

Pow256(k) == IF k = 0 THEN 1 ELSE
             IF k = 1 THEN 256 ELSE
             IF k = 2 THEN 65536 ELSE
             IF k = 3 THEN 16777216 ELSE 16777216 * 256

\* uNN::to_le_bytes: the w low bytes of n, least significant first.  The
\* values of the model stay below 2^31, so the bytes above the fourth are 0.
to_le_bytes(n, w) == [i \in 1..w |-> IF i <= 4 THEN (n \div Pow256(i - 1)) % 256 ELSE 0]

\* uNN::from_le_bytes.  A value of 2^31 or more is held as one of at least
\* 127 * 2^24 with the same low 24 bits.
from_le_bytes(b) ==
    LET byte(k) == IF k <= Len(b) THEN b[k] ELSE 0
        top == IF \E k \in 5..Len(b) : b[k] # 0 THEN 127 ELSE Min2(byte(4), 127)
    IN  byte(1) + 256 * byte(2) + 65536 * byte(3) + 16777216 * top

\* the bytes of s from index i (1-based) on
DropTo(s, i) == SubSeq(s, i, Len(s))

IsPrefix(p, s) == Len(p) <= Len(s) /\ SubSeq(s, 1, Len(p)) = p

IsSuffix(p, s) == Len(p) <= Len(s) /\ SubSeq(s, Len(s) - Len(p) + 1, Len(s)) = p

\* byte order on byte strings (Ord for OsString / String)
BytesLess(a, b) ==
    LET diff == {k \in 1..Min2(Len(a), Len(b)) : a[k] # b[k]}
    IN  IF diff = {} THEN Len(a) < Len(b)
        ELSE LET k == CHOOSE x \in diff : \A y \in diff : x <= y
             IN  a[k] < b[k]

\* the names of S as a sequence in increasing byte order
RECURSIVE SortNames(_)
SortNames(S) ==
    IF S = {} THEN <<>>
    ELSE LET m == CHOOSE x \in S : \A y \in S \ {x} : BytesLess(x, y)
         IN  <<m>> \o SortNames(S \ {m})

RECURSIVE Concat(_)
Concat(ss) == IF ss = <<>> THEN <<>> ELSE Head(ss) \o Concat(Tail(ss))

Elems(s) == {s[i] : i \in 1..Len(s)}

(***************************************************************************)
(* layout: Range, Node, Superblock and their fixed-width encodings.        *)
(***************************************************************************)
FLAG_COMPRESSED == 1
FLAG_DIR == 2
RangeLEN == 16
NodeLEN == 20
SuperblockLEN == 44
\* 0x2170755a, "Zup!" in little-endian bytes
MAGIC == 561018202
VERSION == 1

\* flags & bit != 0
HasFlag(flags, bit) == (flags \div bit) % 2 = 1

\* flags |= bit
SetFlag(flags, bit) == IF HasFlag(flags, bit) THEN flags ELSE flags + bit

MkRange(offset, len) == [offset |-> offset, len |-> len]

MkNode(flags, range) == [flags |-> flags, range |-> range]

Range_to_bytes(r) == to_le_bytes(r.offset, 8) \o to_le_bytes(r.len, 8)

Range_from_bytes(b) ==
    MkRange(from_le_bytes(SubSeq(b, 1, 8)), from_le_bytes(SubSeq(b, 9, 16)))

Node_to_bytes(n) == to_le_bytes(n.flags, 4) \o Range_to_bytes(n.range)

Node_from_bytes(b) ==
    MkNode(from_le_bytes(SubSeq(b, 1, 4)), Range_from_bytes(SubSeq(b, 5, 20)))

\* Option<T>: None, or Some(v)
None == [some |-> FALSE, val |-> MkRange(0, 0)]

Some(v) == [some |-> TRUE, val |-> v]

\* Superblock { dict: Option<Range>, root, version, magic } as the writer and
\* the reader of common/zup use it
MkSuperblock(dict, root, version, magic) ==
    [dict |-> dict, root |-> root, version |-> version, magic |-> magic]

\* Superblock::to_bytes for dict: Option<Range>: "dict = <dict range or zero>"
Superblock_to_bytes(sb) ==
    Range_to_bytes(IF sb.dict.some THEN sb.dict.val ELSE MkRange(0, 0))
        \o Node_to_bytes(sb.root)
        \o to_le_bytes(sb.version, 4)
        \o to_le_bytes(sb.magic, 4)

\* Superblock::from_bytes for dict: Option<Range>: the dictionary is present
\* when the decoded range is non-empty.  No field is validated.
Superblock_from_bytes(b) ==
    LET dict == Range_from_bytes(SubSeq(b, 1, 16))
    IN  MkSuperblock(IF dict.len # 0 THEN Some(dict) ELSE None,
                     Node_from_bytes(SubSeq(b, 17, 36)),
                     from_le_bytes(SubSeq(b, 37, 40)),
                     from_le_bytes(SubSeq(b, 41, 44)))

\* Superblock::from_bytes of zup/layout.rs, where dict is a plain Range
Superblock_from_bytes_v0(b) ==
    [dict |-> Range_from_bytes(SubSeq(b, 1, 16)),
     root |-> Node_from_bytes(SubSeq(b, 17, 36)),
     version |-> from_le_bytes(SubSeq(b, 37, 40)),
     magic |-> from_le_bytes(SubSeq(b, 41, 44))]

(***************************************************************************)
(* File names (byte strings) and the file filter.                          *)
(***************************************************************************)
NameA == <<97>>                                          \* "a"
NameB == <<98>>                                          \* "b"
NameD == <<100>>                                         \* "d"
NameE == <<101>>                                         \* "e"
NameHidden == <<95, 104>>                                \* "_h"
NameXHtml == <<120, 46, 104, 116, 109, 108>>             \* "x.html"
NameDotHtml == <<46, 104, 116, 109, 108>>                \* ".html"
NameBangHtml == <<33, 46, 104, 116, 109, 108>>           \* "!.html"
NameImplementors == <<105, 109, 112, 108, 101, 109, 101, 110, 116, 111, 114, 115>>
NameFlavors == <<102, 108, 97, 118, 111, 114, 115>>      \* "flavors"
NameCargoToml == <<67, 97, 114, 103, 111, 46, 116, 111, 109, 108>>
NameInfoJson == <<105, 110, 102, 111, 46, 106, 115, 111, 110>>
ExtHtml == <<104, 116, 109, 108>>                        \* "html"
DotHtml == <<46>> \o ExtHtml                             \* ".html"

\* a filter that only leaves out the names that begin with '_'
include_unless_hidden(name) == ~(Len(name) > 0 /\ name[1] = 95)

\* should_include_file, on the last component of the path
should_include_file(name) ==
    /\ name # NameImplementors
    /\ ~(Len(name) > 0 /\ name[1] = 95)
    /\ name # NameBangHtml

\* Path::extension: the bytes after the last '.', unless the name has no '.'
\* or its only '.' is its first byte
extension(name) ==
    LET dots == {i \in 1..Len(name) : name[i] = 46}
    IN  IF dots = {} THEN None
        ELSE LET last == CHOOSE i \in dots : \A j \in dots : j <= i
             IN  IF last = 1 THEN None
                 ELSE [some |-> TRUE, val |-> DropTo(name, last + 1)]

\* src_path.extension().and_then(|s| s.to_str()) == Some("html")
has_html_extension(name) ==
    LET e == extension(name) IN e.some /\ e.val = ExtHtml

\* path.to_str().unwrap().ends_with(".html") (the data filter of bin/builder)
ends_with_html(name) == IsSuffix(DotHtml, name)

(***************************************************************************)
(* The HTML rewriter.  A page is a byte string in which these bytes stand  *)
(* for the fragments the six regular expressions look for.                 *)
(***************************************************************************)
TokNewline == 10
\* <a id="settings-menu"
TokSettingsOpen == 201
\* </a>
TokAClose == 202
\* <a class="src" href="../_x.rs.html">source</a>
TokHiddenSrc == 203
\* href="../src/<crate>
TokSrcRef == 204
\* <script defer src="../crates.js"></script>
TokCratesJs == 205
\* ../<crate>/
TokRootRef == 206
\* data-root-path="../
TokRootPath == 207
\* <script type="text/javascript">window.ALL_CRATES=["<crate>"];</script>
TokAllCrates == 208
\* href="/__DOCSERVER_SRCLINK
TokSrcLink == 209
\* data-root-path="./
TokRootPathFixed == 210

\* re_remove_settings.replace_all(data, ""): every leftmost, shortest run from
\* <a id="settings-menu" to the next </a> on the same line is removed
RECURSIVE remove_settings(_)
remove_settings(s) ==
    IF s = <<>> THEN <<>>
    ELSE IF Head(s) = TokSettingsOpen
         THEN LET ends == {j \in 2..Len(s) :
                             /\ s[j] = TokAClose
                             /\ \A k \in 2..(j - 1) : s[k] # TokNewline /\ s[k] # TokAClose}
              IN  IF ends = {} THEN <<Head(s)>> \o remove_settings(Tail(s))
                  ELSE remove_settings(DropTo(s, (CHOOSE j \in ends : TRUE) + 1))
         ELSE <<Head(s)>> \o remove_settings(Tail(s))

\* regex.replace_all(data, rep) for a pattern that is one fragment
RECURSIVE replace_all(_, _, _)
replace_all(s, tok, rep) ==
    IF s = <<>> THEN <<>>
    ELSE (IF Head(s) = tok THEN rep ELSE <<Head(s)>>) \o replace_all(Tail(s), tok, rep)

\* process_html_file: the six substitutions in the order of the code
process_html_file(data) ==
    LET r1 == remove_settings(data)
        r2 == replace_all(r1, TokHiddenSrc, <<>>)
        r3 == replace_all(r2, TokCratesJs, <<TokAllCrates>>)
        r4 == replace_all(r3, TokSrcRef, <<TokSrcLink>>)
        r5 == replace_all(r4, TokRootRef, <<>>)
        r6 == replace_all(r5, TokRootPath, <<TokRootPathFixed>>)
    IN  r6

(***************************************************************************)
(* zstd, as a lossless coder against a dictionary: a frame is either a     *)
(* reference to the whole dictionary or a run-length coding of the input.  *)
(***************************************************************************)
ZRaw == 250
ZDictRef == 251

\* the length of the run of b at the start of s
RunLen(s, b) ==
    CHOOSE n \in 0..Len(s) :
        /\ \A k \in 1..n : s[k] = b
        /\ n = Len(s) \/ s[n + 1] # b

RECURSIVE RLE(_)
RLE(s) ==
    IF s = <<>> THEN <<>>
    ELSE LET n == Min2(RunLen(s, Head(s)), 255)
         IN  <<n, Head(s)>> \o RLE(DropTo(s, n + 1))

RECURSIVE UnRLE(_)
UnRLE(c) ==
    IF Len(c) < 2 THEN <<>>
    ELSE [i \in 1..c[1] |-> c[2]] \o UnRLE(DropTo(c, 3))

\* compressor.compress(buf) with the dictionary dict
zstd_compress(buf, dict) ==
    IF dict # <<>> /\ buf = dict THEN <<ZDictRef>> ELSE <<ZRaw>> \o RLE(buf)

Ok(v) == [ok |-> TRUE, val |-> v, err |-> "none"]

Err(e) == [ok |-> FALSE, val |-> <<>>, err |-> e]

\* Decoder::with_prepared_dictionary(data, dict) and read_to_end
zstd_decompress(data, dict) ==
    IF data = <<ZDictRef>> /\ dict # <<>> THEN Ok(dict)
    ELSE IF data # <<>> /\ Head(data) = ZRaw /\ Len(data) % 2 = 1
              /\ \A i \in 1..((Len(data) - 1) \div 2) : data[2 * i] > 0
         THEN Ok(UnRLE(Tail(data)))
         ELSE Err("zstd")

(***************************************************************************)
(* Directory trees on disk.                                                *)
(***************************************************************************)
DirEntry == [dir |-> TRUE, data |-> <<>>]

FileEntry(data) == [dir |-> FALSE, data |-> data]

\* a directory with nothing in it
EmptyTree == [p \in {<<>>} |-> DirEntry]

\* fs::read_dir(p): the paths directly under p
Children(tree, p) ==
    {q \in DOMAIN tree : Len(q) = Len(p) + 1 /\ SubSeq(q, 1, Len(p)) = p}

ChildNames(tree, p) == {q[Len(q)] : q \in Children(tree, p)}

FilePaths(tree) == {p \in DOMAIN tree : ~tree[p].dir}

DirPaths(tree) == {p \in DOMAIN tree : tree[p].dir}

\* tree with entry e put at path p (fs::write, fs::create_dir_all of a path
\* whose parent exists)
PutEntry(tree, p, e) ==
    [q \in DOMAIN tree \cup {p} |-> IF q = p THEN e ELSE tree[q]]

(***************************************************************************)
(* commands/build.rs: copying the generator's output into the build tree.  *)
(***************************************************************************)
\* the entries of src that copy_and_process_dir reaches: every component
\* below the source directory passes should_include_file
Reached(src) ==
    {p \in DOMAIN src : \A i \in 1..Len(p) : should_include_file(p[i])}

\* the bytes written for the source file of name `name`
processed_data(name, data) ==
    IF has_html_extension(name) THEN process_html_file(data) ELSE data

\* copy_and_process_dir(src_dir, dest_dir, crate_name): dest is the build tree,
\* at is the path of dest_dir in it
copy_and_process_dir(src, dest, at) ==
    LET new == {at \o p : p \in Reached(src) \ {<<>>}}
    IN  [q \in DOMAIN dest \cup new |->
            IF q \in new
            THEN LET p == DropTo(q, Len(at) + 1)
                 IN  IF src[p].dir THEN DirEntry
                     ELSE FileEntry(processed_data(p[Len(p)], src[p].data))
            ELSE dest[q]]

(***************************************************************************)
(* common/zup/write.rs: the writer.                                        *)
(***************************************************************************)
\* SHA-256, taken as collision-free: a digest is identified with the bytes it
\* was computed from
hash(data) == data

NoStats ==
    [total_files |-> 0, total_dirs |-> 0,
     nodes_before_dedup |-> 0, nodes_after_dedup |-> 0,
     uncompressed_bytes_before_dedup |-> 0, uncompressed_bytes_after_dedup |-> 0,
     compressed_bytes_before_dedup |-> 0, compressed_bytes_after_dedup |-> 0]

\* Option<WriterCompress>: on is Some/None; zok tells whether the compressor
\* can be created and run with this level and dictionary
NoCompress == [on |-> FALSE, dict |-> <<>>, zok |-> FALSE]

WriterCompress(dict, zok) == [on |-> TRUE, dict |-> dict, zok |-> zok]

\* the Writer that pack creates
NewWriter(comp) ==
    [f |-> <<>>, offset |-> 0, hash_dedup |-> <<>>, comp |-> comp, stats |-> NoStats]

\* a write_data that forgets the bytes it appended when it advances
write_data_stuck(w, buf) ==
    [w |-> [w EXCEPT !.f = w.f \o buf], range |-> MkRange(w.offset, Len(buf))]

\* a write_data that returns the range after the bytes it appended
write_data_behind(w, buf) ==
    LET res == MkRange(w.offset + Len(buf), Len(buf))
    IN  [w |-> [w EXCEPT !.f = w.f \o buf, !.offset = w.offset + res.len],
         range |-> res]

\* Writer::write_data: append buf, return its range
write_data(w, buf) ==
    LET res == MkRange(w.offset, Len(buf))
    IN  [w |-> [w EXCEPT !.f = w.f \o buf, !.offset = w.offset + res.len],
         range |-> res]

\* a stored_form that takes a compressed form only when it saves two bytes
stored_form_margin(comp, buf) ==
    LET cdata == zstd_compress(buf, comp.dict)
    IN  IF comp.on /\ comp.zok /\ Len(cdata) + 1 < Len(buf)
        THEN [buf |-> cdata, flags |-> FLAG_COMPRESSED]
        ELSE [buf |-> buf, flags |-> 0]

\* a stored_form that also takes a compressed form of equal length
stored_form_le(comp, buf) ==
    LET cdata == zstd_compress(buf, comp.dict)
    IN  IF comp.on /\ comp.zok /\ Len(cdata) <= Len(buf)
        THEN [buf |-> cdata, flags |-> FLAG_COMPRESSED]
        ELSE [buf |-> buf, flags |-> 0]

\* the bytes and flags write_node stores for a payload that is new
stored_form(comp, buf) ==
    LET cdata == zstd_compress(buf, comp.dict)
    IN  IF comp.on /\ comp.zok /\ Len(cdata) < Len(buf)
        THEN [buf |-> cdata, flags |-> FLAG_COMPRESSED]
        ELSE [buf |-> buf, flags |-> 0]

\* HashMap::insert
MapInsert(m, k, v) == [x \in DOMAIN m \cup {k} |-> IF x = k THEN v ELSE m[x]]

\* a table of hashes that forgets what it is given
dedup_forget(m, h, node) == m

\* self.hash_dedup.insert(hash, node)
dedup_insert(m, h, node) == MapInsert(m, h, node)

\* a write_node without the table of hashes: every payload is appended
write_node_always(w, buf) ==
    LET st == stored_form(w.comp, buf)
        wd == write_data(w, st.buf)
        node == MkNode(st.flags, wd.range)
    IN  [w |-> [wd.w EXCEPT !.hash_dedup = MapInsert(w.hash_dedup, hash(buf), node)],
         node |-> node, fresh |-> TRUE]

\* Writer::write_node
write_node(w, buf) ==
    LET h == hash(buf)
        s1 == [w.stats EXCEPT
                 !.nodes_before_dedup = @ + 1,
                 !.uncompressed_bytes_before_dedup = @ + Len(buf)]
    IN  IF h \in DOMAIN w.hash_dedup
        THEN LET res == w.hash_dedup[h]
             IN  [w |-> [w EXCEPT !.stats =
                            [s1 EXCEPT !.compressed_bytes_before_dedup = @ + res.range.len]],
                  node |-> res, fresh |-> FALSE]
        ELSE LET st == stored_form(w.comp, buf)
                 s2 == [s1 EXCEPT
                          !.nodes_after_dedup = @ + 1,
                          !.uncompressed_bytes_after_dedup = @ + Len(buf),
                          !.compressed_bytes_before_dedup = @ + Len(st.buf),
                          !.compressed_bytes_after_dedup = @ + Len(st.buf)]
                 wd == write_data([w EXCEPT !.stats = s2], st.buf)
                 node == MkNode(st.flags, wd.range)
             IN  [w |-> [wd.w EXCEPT !.hash_dedup = dedup_insert(w.hash_dedup, h, node)],
                  node |-> node, fresh |-> TRUE]

\* a conversion to u8 that keeps the low byte
u8_wrapping(n) == Some(n % 256)

\* u8::try_from of a usize
u8_try_from(n) == IF n < 256 THEN Some(n) ELSE None

\* one entry of a directory listing: name length, name, node
entry_bytes(name, node) == <<u8_try_from(Len(name)).val>> \o name \o Node_to_bytes(node)

\* the listing Writer::write builds for directory p: the entries of read_dir
\* sorted by file name, each with the node its recursive write returned
listing_of(tree, nodes, p) ==
    LET readdir == SortNames(ChildNames(tree, p))
    IN  Concat([i \in 1..Len(readdir) |->
                   entry_bytes(readdir[i], nodes[Append(p, readdir[i])])])

\* the flags Writer::write returns for a directory
dir_flags(flags) == SetFlag(flags, FLAG_DIR)

\* a Writer::write that marks FLAG_DIR in the table of hashes as well
Writer_write_marked(w, tree, nodes, p) ==
    IF tree[p].dir
    THEN LET r == write_node(w, listing_of(tree, nodes, p))
             node == [r.node EXCEPT !.flags = dir_flags(@)]
         IN  [w |-> [r.w EXCEPT !.hash_dedup =
                        MapInsert(@, hash(listing_of(tree, nodes, p)), node)],
              node |-> node,
              payload |-> listing_of(tree, nodes, p), fresh |-> r.fresh,
              stored |-> r.node]
    ELSE LET r == write_node(w, tree[p].data)
         IN  [w |-> r.w, node |-> r.node, payload |-> tree[p].data,
              fresh |-> r.fresh, stored |-> r.node]

\* Writer::write(path), once the recursive calls for the entries of a directory
\* have returned the nodes in `nodes`
Writer_write(w, tree, nodes, p) ==
    IF tree[p].dir
    THEN LET r == write_node([w EXCEPT !.stats.total_dirs = @ + 1],
                             listing_of(tree, nodes, p))
         IN  [w |-> r.w, node |-> [r.node EXCEPT !.flags = dir_flags(@)],
              payload |-> listing_of(tree, nodes, p), fresh |-> r.fresh,
              stored |-> r.node]
    ELSE LET r == write_node([w EXCEPT !.stats.total_files = @ + 1], tree[p].data)
         IN  [w |-> r.w, node |-> r.node, payload |-> tree[p].data,
              fresh |-> r.fresh, stored |-> r.node]

\* the order in which the calls of Writer::write return: the entries of a
\* directory in sorted order, each before the directory itself
RECURSIVE PostOrder(_, _)
PostOrder(tree, p) ==
    IF tree[p].dir
    THEN LET readdir == SortNames(ChildNames(tree, p))
         IN  Concat([i \in 1..Len(readdir) |-> PostOrder(tree, Append(p, readdir[i]))])
                 \o <<p>>
    ELSE <<p>>

\* the dictionary range Writer::finish records
finish_dict(w) ==
    IF w.comp.on THEN Some(write_data(w, w.comp.dict).range) ELSE None

\* Writer::finish: the dictionary, then the superblock
Writer_finish(w, root) ==
    LET wd == IF w.comp.on THEN write_data(w, w.comp.dict).w ELSE w
        superblock == MkSuperblock(finish_dict(w), root, VERSION, MAGIC)
    IN  [wd EXCEPT !.f = wd.f \o Superblock_to_bytes(superblock)]

(***************************************************************************)
(* common/zup/read.rs: the reader.  A call returns Ok(v) or Err(kind); a   *)
(* call that panics returns Err("panic").                                  *)
(***************************************************************************)
MaxRangeLen == 100000000

NoDict == [some |-> FALSE, val |-> <<>>]

\* read_exact_at(file, buffer of len bytes, offset)
read_exact_at(file, len, offset) ==
    IF len = 0 THEN Ok(<<>>)
    ELSE IF len > Len(file) \/ offset > Len(file) - len THEN Err("UnexpectedEof")
    ELSE Ok(SubSeq(file, offset + 1, offset + len))

\* Reader::read_range
read_range(file, r) ==
    IF r.len > MaxRangeLen THEN Err("other")
    ELSE read_exact_at(file, r.len, r.offset)

\* Reader::new on a file of at least Superblock::LEN bytes
Reader_new(file) ==
    LET sbuf == read_exact_at(file, SuperblockLEN, Len(file) - SuperblockLEN)
        superblock == Superblock_from_bytes(sbuf.val)
        dict_data == read_range(file, superblock.dict.val)
    IN  IF ~sbuf.ok THEN sbuf
        ELSE IF superblock.dict.some
        THEN IF dict_data.ok
             THEN Ok([file |-> file, superblock |-> superblock,
                      dict |-> [some |-> TRUE, val |-> dict_data.val]])
             ELSE dict_data
        ELSE Ok([file |-> file, superblock |-> superblock, dict |-> NoDict])

\* Reader::read_node
read_node(reader, node) ==
    LET data == read_range(reader.file, node.range)
    IN  IF ~data.ok THEN data
        ELSE IF HasFlag(node.flags, FLAG_COMPRESSED)
        THEN IF ~reader.dict.some THEN Err("InvalidData")
             ELSE LET res == zstd_decompress(data.val, reader.dict.val)
                  IN  IF res.ok THEN res ELSE Err("InvalidData")
        ELSE data

\* str::from_utf8 on the names of the model: 7-bit bytes are valid, a lone
\* byte above 127 is not
valid_utf8(b) == \A i \in 1..Len(b) : b[i] < 128

\* the path without its last segment
Front(p) == SubSeq(p, 1, Len(p) - 1)

\* the longest prefix of the path p that is a path of the tree
RECURSIVE Deepest(_, _)
Deepest(tree, p) == IF p \in DOMAIN tree THEN p ELSE Deepest(tree, Front(p))

\* the value of the one element of a set: S is {e} for an expression e that
\* is evaluated once
The(S) == CHOOSE x \in S : TRUE

\* the loop of Directory::children over the decoded listing
RECURSIVE parse_listing(_)
parse_listing(data) ==
    IF data = <<>> THEN Ok(<<>>)
    ELSE LET n == data[1]
         IN  IF Len(data) < 1 + n THEN Err("UnexpectedEof")
             ELSE IF ~valid_utf8(SubSeq(data, 2, 1 + n)) THEN Err("InvalidData")
             ELSE IF Len(data) < 1 + n + NodeLEN THEN Err("UnexpectedEof")
             ELSE The({IF rest.ok
                       THEN Ok(<<[name |-> SubSeq(data, 2, 1 + n),
                                  dir |-> HasFlag(node.flags, FLAG_DIR),
                                  node |-> node]>> \o rest.val)
                       ELSE rest :
                       node \in {Node_from_bytes(SubSeq(data, n + 2, n + 1 + NodeLEN))},
                       rest \in {parse_listing(The({DropTo(data, n + 2 + NodeLEN)}))}})

\* Directory::children: read_node(..).unwrap(), then the loop
children(reader, node) ==
    The({IF ~data.ok THEN Err("panic") ELSE parse_listing(data.val) :
         data \in {read_node(reader, node)}})

\* Reader::root_node
root_node(reader) == [dir |-> TRUE, node |-> reader.superblock.root]

\* the loop of Reader::open from the node cur over the segments left
RECURSIVE open_from(_, _, _)
open_from(reader, cur, path) ==
    IF path = <<>> THEN Ok(cur)
    ELSE IF ~cur.dir THEN Err("NotADirectory")
    ELSE The({IF ~ch.ok THEN ch
              ELSE LET found == {i \in 1..Len(ch.val) : ch.val[i].name = Head(path)}
                   IN  IF found = {} THEN Err("NotFound")
                       ELSE The({open_from(reader,
                                           [dir |-> ch.val[i].dir, node |-> ch.val[i].node],
                                           Tail(path)) :
                                 i \in {CHOOSE i \in found : \A j \in found : i <= j}}) :
              ch \in {children(reader, cur.node)}})

\* Reader::open
Reader_open(reader, path) == open_from(reader, root_node(reader), path)

\* a read that decodes the payload of whatever node open yields
Reader_read_any(reader, path) ==
    LET n == Reader_open(reader, path)
    IN  IF ~n.ok THEN n ELSE read_node(reader, n.val.node)

\* Reader::read
Reader_read(reader, path) ==
    LET n == Reader_open(reader, path)
    IN  IF ~n.ok THEN n
        ELSE IF n.val.dir THEN Err("IsADirectory")
        ELSE read_node(reader, n.val.node)

(***************************************************************************)
(* common/zup/write.rs: pack, up to the creation of the Writer.            *)
(***************************************************************************)
DictMinTrain == 100

RECURSIVE SumLen(_, _)
SumLen(tree, ps) ==
    IF ps = {} THEN 0
    ELSE LET p == CHOOSE p \in ps : TRUE
         IN  Len(tree[p].data) + SumLen(tree, ps \ {p})

\* the dictionaries pack can end with for the files under input_dir: the empty
\* one when the samples hold less than 100 bytes or training fails, else a
\* trained one, which depends on the shuffle.  A trained dictionary is taken to
\* be one of the non-empty samples.
Dictionaries(tree) ==
    {<<>>} \cup
    (IF FilePaths(tree) = {} \/ SumLen(tree, FilePaths(tree)) < DictMinTrain
     THEN {}
     ELSE {tree[p].data : p \in {q \in FilePaths(tree) : tree[q].data # <<>>}})

\* w.write(input_dir): the calls of Writer::write in the order they return
RECURSIVE write_all(_, _, _, _)
write_all(wr, tree, ns, ps) ==
    IF ps = <<>> THEN [w |-> wr, nodes |-> ns]
    ELSE LET r == Writer_write(wr, tree, ns, Head(ps))
         IN  The({write_all(x.w, tree, x.nodes, Tail(ps)) :
                  x \in {[w |-> r.w, nodes |-> MapInsert(ns, Head(ps), r.node)]}})

\* pack, from the creation of the Writer on: the bytes of the output file
pack(tree, comp) ==
    LET r == write_all(NewWriter(comp), tree, <<>>, PostOrder(tree, <<>>))
    IN  Writer_finish(r.w, r.nodes[<<>>]).f

(***************************************************************************)
(* zup/write.rs: the Tree of nodes that bin/builder fills, and its Writer. *)
(***************************************************************************)
NewTree == [nodes |-> <<>>, hash_dedup |-> <<>>, next_id |-> 0]

FileNode(data) == [dir |-> FALSE, data |-> data, entries |-> <<>>]

DirectoryNode(entries) == [dir |-> TRUE, data |-> <<>>, entries |-> entries]

DirectoryEntry(name, node_id) == [name |-> name, node_id |-> node_id]

NoId == [some |-> FALSE, val |-> 0]

\* Node::hash: the digest of the data of a file, or of the name lengths, names
\* and node ids of the entries of a directory
Node_hash(node) ==
    hash(IF node.dir
         THEN Concat([k \in 1..Len(node.entries) |->
                         to_le_bytes(Len(node.entries[k].name), 8)
                             \o node.entries[k].name
                             \o to_le_bytes(node.entries[k].node_id, 8)])
         ELSE node.data)

\* Tree::add_node
add_node(tree, node) ==
    LET h == Node_hash(node)
        id == tree.next_id + 1
    IN  IF h \in DOMAIN tree.hash_dedup
        THEN [tree |-> tree, id |-> tree.hash_dedup[h]]
        ELSE [tree |-> [nodes |-> MapInsert(tree.nodes, id, node),
                        hash_dedup |-> MapInsert(tree.hash_dedup, h, id),
                        next_id |-> id],
              id |-> id]

\* the data_filter of pack_config, which File::data applies to what it reads
data_filter(name, data) ==
    IF ends_with_html(name) THEN process_html_file(data) ELSE data

\* entries.sort_by(|a, b| a.name.cmp(&b.name))
sort_entries(entries) ==
    LET names == SortNames({entries[k].name : k \in 1..Len(entries)})
    IN  [n \in 1..Len(names) |->
            entries[CHOOSE k \in 1..Len(entries) : entries[k].name = names[n]]]

\* Tree::pack_inner, and its loop over the sorted entries of a directory
RECURSIVE pack_inner(_, _, _)
RECURSIVE pack_entries(_, _, _, _, _)
pack_entries(tree, src, p, readdir, entries) ==
    IF readdir = <<>> THEN [tree |-> tree, entries |-> entries]
    ELSE IF ~should_include_file(Head(readdir))
    THEN pack_entries(tree, src, p, Tail(readdir), entries)
    ELSE LET r == pack_inner(tree, src, Append(p, Head(readdir)))
         IN  pack_entries(r.tree, src, p, Tail(readdir),
                          IF r.id.some
                          THEN Append(entries, DirectoryEntry(Head(readdir), r.id.val))
                          ELSE entries)

pack_inner(tree, src, p) ==
    IF src[p].dir
    THEN LET r == pack_entries(tree, src, p, SortNames(ChildNames(src, p)), <<>>)
             a == add_node(r.tree, DirectoryNode(sort_entries(r.entries)))
         IN  IF r.entries = <<>> THEN [tree |-> r.tree, id |-> NoId]
             ELSE [tree |-> a.tree, id |-> [some |-> TRUE, val |-> a.id]]
    ELSE LET a == add_node(tree, FileNode(data_filter(p[Len(p)], src[p].data)))
         IN  [tree |-> a.tree, id |-> [some |-> TRUE, val |-> a.id]]

\* the Writer that Tree::write creates
NewTreeWriter(comp) == [f |-> <<>>, offset |-> 0, nodes |-> <<>>, comp |-> comp]

\* Writer::write_node of zup/write.rs: no table of hashes
Tree_write_node(w, buf) ==
    LET st == stored_form(w.comp, buf)
        wd == write_data(w, st.buf)
    IN  [w |-> wd.w, node |-> MkNode(st.flags, wd.range)]

\* the listing that Writer::write of zup/write.rs builds: the entries in the
\* order of dir.entries
Tree_listing_of(w, node) ==
    Concat([k \in 1..Len(node.entries) |->
               entry_bytes(node.entries[k].name, w.nodes[node.entries[k].node_id])])

\* Writer::write(node_id) of zup/write.rs, once the calls for the entries of a
\* directory have returned
Tree_Writer_write(w, tree, node_id) ==
    IF node_id \in DOMAIN w.nodes
    THEN [w |-> w, node |-> w.nodes[node_id], payload |-> <<>>, cached |-> TRUE]
    ELSE LET n == tree.nodes[node_id]
             buf == IF n.dir THEN Tree_listing_of(w, n) ELSE n.data
             r == Tree_write_node(w, buf)
             res == IF n.dir THEN [r.node EXCEPT !.flags = dir_flags(@)] ELSE r.node
         IN  [w |-> [r.w EXCEPT !.nodes = MapInsert(@, node_id, res)],
              node |-> res, payload |-> buf, cached |-> FALSE]

\* the order in which the calls of Writer::write(node_id) return
RECURSIVE PostOrderIds(_, _)
PostOrderIds(tree, node_id) ==
    LET n == tree.nodes[node_id]
    IN  IF n.dir
        THEN Concat([k \in 1..Len(n.entries) |-> PostOrderIds(tree, n.entries[k].node_id)])
                 \o <<node_id>>
        ELSE <<node_id>>

(***************************************************************************)
(* The inputs of one build.                                                *)
(***************************************************************************)
CEmpty == <<>>
C1111 == <<1, 1, 1, 1>>
CHtmlA == <<TokSettingsOpen, 7, TokAClose>> \o C1111
CHtmlB == <<TokSettingsOpen, 8, TokAClose>> \o C1111
CBig == [i \in 1..DictMinTrain |-> 1]
\* Cargo.toml and info.json
ManifestBytes == <<77, 77, 77>>
InfoBytes == <<123, 125>>
\* a file that holds the bytes of a listing: one entry "a" for four bytes
\* stored verbatim right after Cargo.toml
CListing == entry_bytes(NameA, MkNode(0, MkRange(Len(ManifestBytes), Len(C1111))))

\* what the generator may leave in the crate's output directory
Candidates ==
    {[path |-> <<NameA>>, entry |-> FileEntry(CEmpty)],
     [path |-> <<NameA>>, entry |-> FileEntry(C1111)],
     [path |-> <<NameB>>, entry |-> FileEntry(C1111)],
     [path |-> <<NameB>>, entry |-> FileEntry(CBig)],
     [path |-> <<NameD>>, entry |-> DirEntry],
     [path |-> <<NameD, NameA>>, entry |-> FileEntry(C1111)],
     [path |-> <<NameD, NameHidden>>, entry |-> FileEntry(C1111)],
     [path |-> <<NameE>>, entry |-> FileEntry(CListing)],
     [path |-> <<NameXHtml>>, entry |-> FileEntry(CHtmlA)],
     [path |-> <<NameXHtml>>, entry |-> FileEntry(CHtmlB)],
     [path |-> <<NameDotHtml>>, entry |-> FileEntry(CHtmlA)]}

\* the flavor names calc_flavors may return, in its order
FlavorLists == {<<NameA>>, <<NameB, NameA>>}

(***************************************************************************)
(* State.                                                                  *)
(***************************************************************************)
VARIABLES
    pc,         \* where commands::build::run (then a reader of its archive) stands
    flavors,    \* the flavor names of the build
    docTree,    \* the generator's output: the crate directory of a flavor
    i,          \* the index of the flavor being processed
    buildTree,  \* build_output_dir
    w,          \* the Writer of pack
    todo,       \* the paths whose Writer::write has not returned yet
    nodes,      \* the Node that Writer::write returned, by path
    calls,      \* history: the calls of write_node
    archive,    \* the bytes of the output file
    opened,     \* what Reader::new returned
    reader,     \* the Reader opened on the archive
    lastRead,   \* the last path read and what Reader::read returned
    rx,         \* bin/builder: the flavors in the channel
    worker,     \* bin/builder: where each worker thread stands, and its flavor
    zup_tree,   \* bin/builder: the Tree
    zup_flavors,\* bin/builder: the entries pushed for the flavors
    statics,    \* the static files option, its flag and the copies made
    manifest,   \* the Manifest that calc_flavors is given
    calc,       \* calc_flavors: the rule it stands at, its locals, how it ended
    site,       \* bin/server: the crates directory, its archives as trees, and static
    req,        \* bin/server: the request
    resp,       \* bin/server: the response of serve_inner
    batch,      \* history: the spawns of the generator and the lines written to it
    destination \* commands/unzup: the Walker and what it wrote

vars == <<pc, flavors, docTree, i, buildTree, w, todo, nodes, calls, archive, opened,
          reader, lastRead, rx, worker, zup_tree, zup_flavors, statics,
          manifest, calc, site, req, resp, batch, destination>>

frontVars == <<manifest, calc, site, req, resp, batch, destination>>

builderVars == <<rx, worker, zup_tree, zup_flavors, statics>>

\* path: output_static is Some; copied: statics_copied; copies and at are
\* history: the copies of static.files made, and the number, in the order of
\* processing, of the flavor during which the last one was made
NoStatics == [path |-> FALSE, copied |-> FALSE, copies |-> 0, at |-> 0]

\* a copy of static.files for every flavor
copy_statics_each(st, nth) ==
    IF st.path THEN [st EXCEPT !.copied = TRUE, !.copies = @ + 1, !.at = nth] ELSE st

\* commands/build.rs: if let Some(static_path) = &args.output_static, and
\* !statics_copied: the copy, then statics_copied = true
copy_statics(st, nth) ==
    IF st.path /\ ~st.copied
    THEN [st EXCEPT !.copied = TRUE, !.copies = @ + 1, !.at = nth]
    ELSE st

\* bin/builder.rs: if let Some(static_path) = static_path: copy_done is taken
\* from statics_copied, which is set, and the copy is made if !copy_done
builder_copy_statics(st, nth) ==
    LET copy_done == st.copied
    IN  IF ~st.path THEN st
        ELSE IF ~copy_done
        THEN [st EXCEPT !.copied = TRUE, !.copies = @ + 1, !.at = nth]
        ELSE [st EXCEPT !.copied = TRUE]

\* bin/builder is not running
NoBuilder ==
    /\ rx = <<>>
    /\ worker = <<>>
    /\ zup_tree = NewTree
    /\ zup_flavors = <<>>
    /\ statics = NoStatics

\* commands/unzup is not running
NoDest == <<>>

\* calc_flavors, bin/server and commands/unzup are not running
NoFront ==
    /\ manifest = <<>>
    /\ calc = <<>>
    /\ site = <<>>
    /\ req = <<>>
    /\ resp = <<>>
    /\ batch = <<>>
    /\ destination = NoDest

NoReader == [file |-> <<>>, superblock |-> MkSuperblock(None, MkNode(0, MkRange(0, 0)), 0, 0),
             dict |-> NoDict]

NotOpened == [ok |-> FALSE, err |-> "none"]

NoRead == [path |-> <<>>, ok |-> FALSE, val |-> <<>>, err |-> "none"]

\* run, after calc_flavors and the batch of the generator were started
RunInit ==
    /\ pc = "cargo"
    /\ flavors \in FlavorLists
    /\ docTree = EmptyTree
    /\ i = 1
    /\ buildTree = EmptyTree
    /\ w = NewWriter(NoCompress)
    /\ todo = <<>>
    /\ nodes = <<>>
    /\ calls = <<>>
    /\ archive = <<>>
    /\ opened = NotOpened
    /\ reader = NoReader
    /\ lastRead = NoRead
    /\ rx = <<>>
    /\ worker = <<>>
    /\ zup_tree = NewTree
    /\ zup_flavors = <<>>
    /\ NoFront

Init ==
    /\ RunInit
    /\ statics = [NoStatics EXCEPT !.path = TRUE]

\* the generator writes one more file or directory of its output
Generate ==
    /\ pc = "cargo"
    /\ Cardinality(DOMAIN docTree) - 1 < MaxEntries
    /\ \E c \in Candidates :
          /\ c.path \notin DOMAIN docTree
          /\ SubSeq(c.path, 1, Len(c.path) - 1) \in DirPaths(docTree)
          /\ docTree' = PutEntry(docTree, c.path, c.entry)
    /\ UNCHANGED <<pc, flavors, i, buildTree, w, todo, nodes, calls, archive, opened, reader, lastRead>>
    /\ UNCHANGED builderVars
    /\ UNCHANGED frontVars

\* child.wait_with_output(): on failure process::exit(1), else the flavors
\* directory is created
CargoExit ==
    /\ pc = "cargo"
    /\ \E success \in BOOLEAN :
          /\ pc' = IF success THEN "process" ELSE "exit1"
          /\ buildTree' = IF success THEN PutEntry(buildTree, <<NameFlavors>>, DirEntry)
                          ELSE buildTree
    /\ UNCHANGED <<flavors, docTree, i, w, todo, nodes, calls, archive, opened, reader, lastRead>>
    /\ UNCHANGED builderVars
    /\ UNCHANGED frontVars

\* one turn of the loop over the flavors: create flavors/<name>, copy and
\* process the crate directory into it, copy the static files the first time
ProcessFlavor ==
    /\ pc = "process"
    /\ i <= Len(flavors)
    /\ LET at == <<NameFlavors, flavors[i]>>
       IN  buildTree' = copy_and_process_dir(docTree, PutEntry(buildTree, at, DirEntry), at)
    /\ i' = i + 1
    /\ UNCHANGED <<pc, flavors, docTree, w, todo, nodes, calls, archive, opened, reader, lastRead>>
    /\ UNCHANGED <<rx, worker, zup_tree, zup_flavors>>
    /\ statics' = copy_statics(statics, i)
    /\ UNCHANGED frontVars

\* after the loop: Cargo.toml and info.json are written, then pack creates the
\* output file, the dictionary and the Writer
PackCreate ==
    /\ pc = "process"
    /\ i > Len(flavors)
    /\ LET tree == PutEntry(PutEntry(buildTree, <<NameCargoToml>>, FileEntry(ManifestBytes)),
                            <<NameInfoJson>>, FileEntry(InfoBytes))
       IN  /\ buildTree' = tree
           /\ todo' = PostOrder(tree, <<>>)
           /\ \/ w' = NewWriter(NoCompress)
              \/ \E dict \in Dictionaries(tree), zok \in BOOLEAN :
                    w' = NewWriter(WriterCompress(dict, zok))
    /\ pc' = "write"
    /\ UNCHANGED <<flavors, docTree, i, nodes, calls, archive, opened, reader, lastRead>>
    /\ UNCHANGED builderVars
    /\ UNCHANGED frontVars

\* one call of Writer::write returns; when it was made for an entry of a
\* directory, the length of the entry's name is then pushed as a u8, and the
\* unwrap of the conversion panics on a length above 255
Write ==
    /\ pc = "write"
    /\ todo # <<>>
    /\ LET p == Head(todo)
           r == Writer_write(w, buildTree, nodes, p)
       IN  /\ w' = r.w
           /\ nodes' = MapInsert(nodes, p, r.node)
           /\ calls' = Append(calls,
                   [path |-> p, dir |-> buildTree[p].dir,
                    payload |-> r.payload, stored |-> r.stored,
                    known |-> hash(r.payload) \in DOMAIN w.hash_dedup,
                    before |-> w.offset, after |-> r.w.offset,
                    fileSame |-> r.w.f = w.f,
                    tableSame |-> r.w.hash_dedup = w.hash_dedup])
    /\ todo' = Tail(todo)
    /\ pc' = IF Head(todo) # <<>> /\ ~u8_try_from(Len(Head(todo)[Len(Head(todo))])).some
             THEN "panic" ELSE pc
    /\ UNCHANGED <<flavors, docTree, i, buildTree, archive, opened, reader, lastRead>>
    /\ UNCHANGED builderVars
    /\ UNCHANGED frontVars

\* w.finish(root)
Finish ==
    /\ pc = "write"
    /\ todo = <<>>
    /\ w' = Writer_finish(w, nodes[<<>>])
    /\ archive' = w'.f
    /\ pc' = "sealed"
    /\ UNCHANGED <<flavors, docTree, i, buildTree, todo, nodes, calls, opened, reader, lastRead>>
    /\ UNCHANGED builderVars
    /\ UNCHANGED frontVars

\* Reader::new on the archive
Open ==
    /\ pc = "sealed"
    /\ LET r == Reader_new(archive)
       IN  /\ opened' = [ok |-> r.ok, err |-> r.err]
           /\ IF r.ok THEN reader' = r.val /\ pc' = "open"
              ELSE reader' = reader /\ pc' = "badarchive"
    /\ UNCHANGED <<flavors, docTree, i, buildTree, w, todo, nodes, calls, archive, lastRead>>
    /\ UNCHANGED builderVars
    /\ UNCHANGED frontVars

\* the paths a client asks for: those of the generator's output under each
\* flavor, and the two files at the root
QueryPaths ==
    {<<NameCargoToml>>, <<NameInfoJson>>} \cup
    {<<NameFlavors, flavors[k]>> \o p : k \in 1..Len(flavors), p \in DOMAIN docTree}

\* Reader::read(path).  The reader keeps no state between calls, so one call
\* in a run stands for any of them.
Read ==
    /\ pc = "open"
    /\ \E p \in QueryPaths :
          LET r == Reader_read(reader, p)
          IN  lastRead' = [path |-> p, ok |-> r.ok, val |-> r.val, err |-> r.err]
    /\ pc' = "read"
    /\ UNCHANGED <<flavors, docTree, i, buildTree, w, todo, nodes, calls, archive, opened, reader>>
    /\ UNCHANGED builderVars
    /\ UNCHANGED frontVars

Next ==
    \/ Generate
    \/ CargoExit
    \/ ProcessFlavor
    \/ PackCreate
    \/ Write
    \/ Finish
    \/ Open
    \/ Read

Spec == Init /\ [][Next]_vars

(***************************************************************************)
(* commands/build.rs: run on generator outputs with files whose bytes are   *)
(* the listing of a directory of the same output.                          *)
(***************************************************************************)
\* the listing of a directory with one entry "a" for four bytes stored
\* verbatim after Cargo.toml and after a file of the length of this listing
CListingAhead ==
    entry_bytes(NameA, MkNode(0, MkRange(Len(ManifestBytes) + 1 + Len(NameA) + NodeLEN,
                                         Len(C1111))))

\* the listing of a directory with one entry "a" for a file stored verbatim
\* after Cargo.toml that holds this listing
CListingSelf ==
    entry_bytes(NameA, MkNode(0, MkRange(Len(ManifestBytes), 1 + Len(NameA) + NodeLEN)))

\* a tree with the entries es[1], es[2], ... put in turn
RECURSIVE TreeWith(_)
TreeWith(es) ==
    IF es = <<>> THEN EmptyTree
    ELSE PutEntry(TreeWith(SubSeq(es, 1, Len(es) - 1)), es[Len(es)].path, es[Len(es)].entry)

\* what the generator left in the crate's output directory
ListingOutputs ==
    {TreeWith(<<[path |-> <<NameA>>, entry |-> FileEntry(CListingAhead)],
                [path |-> <<NameD>>, entry |-> DirEntry],
                [path |-> <<NameD, NameA>>, entry |-> FileEntry(C1111)]>>),
     TreeWith(<<[path |-> <<NameD>>, entry |-> DirEntry],
                [path |-> <<NameD, NameA>>, entry |-> FileEntry(CListingSelf)]>>),
     TreeWith(<<[path |-> <<NameA>>, entry |-> FileEntry(C1111)],
                [path |-> <<NameD>>, entry |-> DirEntry],
                [path |-> <<NameD, NameA>>, entry |-> FileEntry(C1111)],
                [path |-> <<NameE>>, entry |-> FileEntry(CListing)]>>),
     TreeWith(<<[path |-> <<NameA>>, entry |-> FileEntry(CEmpty)],
                [path |-> <<NameD>>, entry |-> DirEntry]>>),
     TreeWith(<<[path |-> <<NameB>>, entry |-> FileEntry(CBig)],
                [path |-> <<NameD>>, entry |-> DirEntry],
                [path |-> <<NameD, NameA>>, entry |-> FileEntry(C1111)]>>)}

\* run, after the generator has written its output
ListingsInit ==
    /\ pc = "cargo"
    /\ flavors \in FlavorLists
    /\ docTree \in ListingOutputs
    /\ i = 1
    /\ buildTree = EmptyTree
    /\ w = NewWriter(NoCompress)
    /\ todo = <<>>
    /\ nodes = <<>>
    /\ calls = <<>>
    /\ archive = <<>>
    /\ opened = NotOpened
    /\ reader = NoReader
    /\ lastRead = NoRead
    /\ NoBuilder
    /\ NoFront

\* Walker::new, and the destination before the walk: it does not exist
NewWalker == [visited |-> {}, files |-> 0, bytes |-> 0, panic |-> FALSE, tree |-> <<>>]

\* Walker::walk of commands/unzup.rs on the node n = [dir, node] for the path
\* under the destination; walk_children is its loop over n.children()
RECURSIVE walk(_, _, _, _)
RECURSIVE walk_children(_, _, _, _, _)
walk(rd, wk, n, path) ==
    IF wk.panic \/ n.node \in wk.visited THEN wk
    ELSE The({
        IF n.dir
        THEN IF path \in DOMAIN seen.tree \/ ~ch.ok THEN [seen EXCEPT !.panic = TRUE]
             ELSE walk_children(rd, [seen EXCEPT !.tree = MapInsert(@, path, DirEntry)],
                                ch.val, path, 1)
        ELSE IF ~data.ok THEN [seen EXCEPT !.panic = TRUE]
             ELSE [seen EXCEPT !.files = @ + 1, !.bytes = @ + Len(data.val),
                               !.tree = MapInsert(@, path, FileEntry(data.val))] :
        seen \in {[wk EXCEPT !.visited = @ \cup {n.node}]},
        ch \in {IF n.dir THEN children(rd, n.node) ELSE Ok(<<>>)},
        data \in {IF n.dir THEN Ok(<<>>) ELSE read_node(rd, n.node)}})

walk_children(rd, wk, ch, path, k) ==
    IF k > Len(ch) THEN wk
    ELSE The({walk_children(rd, next, ch, path, k + 1) :
              next \in {walk(rd, wk, [dir |-> ch[k].dir, node |-> ch[k].node],
                             Append(path, ch[k].name))}})

\* commands/unzup.rs run: the destination does not exist, Reader::new was
\* made, the walk from the root node
Unzup ==
    /\ pc = "open"
    /\ destination' = walk(reader, NewWalker, root_node(reader), <<>>)
    /\ pc' = "unzupped"
    /\ UNCHANGED <<flavors, docTree, i, buildTree, w, todo, nodes, calls, archive, opened,
                   reader, lastRead>>
    /\ UNCHANGED builderVars
    /\ UNCHANGED <<manifest, calc, site, req, resp, batch>>

ListingsNext ==
    \/ CargoExit
    \/ ProcessFlavor
    \/ PackCreate
    \/ Write
    \/ Finish
    \/ Open
    \/ Unzup

SpecListings == ListingsInit /\ [][ListingsNext]_vars

(***************************************************************************)
(* commands/build.rs: run on generator outputs that hold the names the     *)
(* file filter leaves out, as files and as directories with files in them. *)
(***************************************************************************)
FilterCandidates ==
    {[path |-> <<NameA>>, entry |-> FileEntry(C1111)],
     [path |-> <<NameImplementors>>, entry |-> DirEntry],
     [path |-> <<NameImplementors, NameA>>, entry |-> FileEntry(C1111)],
     [path |-> <<NameHidden>>, entry |-> DirEntry],
     [path |-> <<NameHidden, NameB>>, entry |-> FileEntry(CEmpty)],
     [path |-> <<NameBangHtml>>, entry |-> FileEntry(CHtmlA)],
     [path |-> <<NameD>>, entry |-> DirEntry],
     [path |-> <<NameD, NameB>>, entry |-> FileEntry(C1111)],
     [path |-> <<NameD, NameBangHtml>>, entry |-> FileEntry(CHtmlA)],
     [path |-> <<NameD, NameImplementors>>, entry |-> FileEntry(CEmpty)]}

\* the generator writes one more file or directory of its output
GenerateDocs ==
    /\ pc = "cargo"
    /\ Cardinality(DOMAIN docTree) - 1 < MaxEntries
    /\ \E c \in FilterCandidates :
          /\ c.path \notin DOMAIN docTree
          /\ SubSeq(c.path, 1, Len(c.path) - 1) \in DirPaths(docTree)
          /\ docTree' = PutEntry(docTree, c.path, c.entry)
    /\ UNCHANGED <<pc, flavors, i, buildTree, w, todo, nodes, calls, archive, opened, reader, lastRead>>
    /\ UNCHANGED builderVars
    /\ UNCHANGED frontVars

FilterNext ==
    \/ GenerateDocs
    \/ CargoExit
    \/ ProcessFlavor
    \/ PackCreate
    \/ Write
    \/ Finish

SpecFilter == Init /\ [][FilterNext]_vars

(***************************************************************************)
(* commands/build.rs: run on generator outputs with names of 255 and of    *)
(* 256 bytes.                                                              *)
(***************************************************************************)
Name255 == [k \in 1..255 |-> 110]

Name256 == [k \in 1..256 |-> 110]

NameCandidates ==
    {[path |-> <<NameA>>, entry |-> FileEntry(C1111)],
     [path |-> <<NameB>>, entry |-> FileEntry(CEmpty)],
     [path |-> <<Name255>>, entry |-> FileEntry(C1111)],
     [path |-> <<Name256>>, entry |-> FileEntry(C1111)],
     [path |-> <<Name255>>, entry |-> DirEntry],
     [path |-> <<Name255, Name256>>, entry |-> FileEntry(CEmpty)],
     [path |-> <<Name255, NameA>>, entry |-> FileEntry(CEmpty)]}

\* the generator writes one more file or directory of its output
GenerateNames ==
    /\ pc = "cargo"
    /\ Cardinality(DOMAIN docTree) - 1 < MaxEntries
    /\ \E c \in NameCandidates :
          /\ c.path \notin DOMAIN docTree
          /\ SubSeq(c.path, 1, Len(c.path) - 1) \in DirPaths(docTree)
          /\ docTree' = PutEntry(docTree, c.path, c.entry)
    /\ UNCHANGED <<pc, flavors, i, buildTree, w, todo, nodes, calls, archive, opened, reader, lastRead>>
    /\ UNCHANGED builderVars
    /\ UNCHANGED frontVars

NamesNext ==
    \/ GenerateNames
    \/ CargoExit
    \/ ProcessFlavor
    \/ PackCreate
    \/ Write
    \/ Finish

SpecNames == Init /\ [][NamesNext]_vars

(***************************************************************************)
(* A reader on a file it is given: an archive written by a Writer, as      *)
(* written or with one byte of its superblock changed.                     *)
(***************************************************************************)
SampleTrees ==
    {PutEntry(EmptyTree, <<NameA>>, FileEntry(C1111)),
     PutEntry(PutEntry(PutEntry(EmptyTree, <<NameB>>, FileEntry(CHtmlA)),
                       <<NameD>>, DirEntry),
              <<NameD, NameA>>, FileEntry(C1111))}

SampleCompress == {NoCompress, WriterCompress(<<>>, TRUE), WriterCompress(CHtmlA, TRUE)}

\* the first byte of each field of the superblock and of the halves of its
\* ranges, counted from the start of the superblock, and the fourth byte of
\* the length of the dictionary
SuperblockBytes == {1, 9, 12, 17, 21, 29, 37, 41}

ByteValues == {0, 1, 6, 100}

\* the file with the byte at position at of its superblock set to b
WithByte(file, at, b) == [file EXCEPT ![Len(file) - SuperblockLEN + at] = b]

\* the files a reader may be given in place of the file that was written
Files(written) ==
    {written} \cup {WithByte(written, at, b) : at \in SuperblockBytes, b \in ByteValues}

ReaderPaths == {<<>>, <<NameA>>, <<NameB>>, <<NameD>>, <<NameD, NameA>>, <<NameB, NameA>>}

buildVars == <<flavors, docTree, i, buildTree, w, todo, nodes, calls>>

\* a Writer is created for a directory
ReaderInit ==
    /\ pc = "write"
    /\ flavors = <<>>
    /\ docTree = EmptyTree
    /\ i = 1
    /\ buildTree \in SampleTrees
    /\ \E c \in SampleCompress : w = NewWriter(c)
    /\ todo = PostOrder(buildTree, <<>>)
    /\ nodes = <<>>
    /\ calls = <<>>
    /\ archive = <<>>
    /\ opened = NotOpened
    /\ reader = NoReader
    /\ lastRead = NoRead
    /\ NoBuilder
    /\ NoFront

\* the file that a reader will be given is put in place
Present ==
    /\ pc = "sealed"
    /\ archive' \in Files(archive)
    /\ pc' = "file"
    /\ UNCHANGED <<buildVars, opened, reader, lastRead>>
    /\ UNCHANGED builderVars
    /\ UNCHANGED frontVars

\* Reader::new(path)
ReaderNew ==
    /\ pc = "file"
    /\ LET r == Reader_new(archive)
       IN  /\ opened' = [ok |-> r.ok, err |-> r.err]
           /\ IF r.ok THEN reader' = r.val /\ pc' = "reader"
              ELSE reader' = reader /\ pc' = "noreader"
    /\ UNCHANGED <<buildVars, archive, lastRead>>
    /\ UNCHANGED builderVars
    /\ UNCHANGED frontVars

\* reader.read(path)
ReaderRead ==
    /\ pc = "reader"
    /\ \E p \in ReaderPaths :
          LET r == Reader_read(reader, p)
          IN  lastRead' = [path |-> p, ok |-> r.ok, val |-> r.val, err |-> r.err]
    /\ pc' = "done"
    /\ UNCHANGED <<buildVars, archive, opened, reader>>
    /\ UNCHANGED builderVars
    /\ UNCHANGED frontVars

\* reader.open(path), then children() when the node is a directory
ReaderList ==
    /\ pc = "reader"
    /\ \E p \in ReaderPaths :
          LET n == Reader_open(reader, p)
              ch == children(reader, n.val.node)
          IN  lastRead' =
                  IF ~n.ok THEN [path |-> p, ok |-> FALSE, val |-> <<>>, err |-> n.err]
                  ELSE IF ~n.val.dir
                  THEN [path |-> p, ok |-> TRUE, val |-> <<>>, err |-> "file"]
                  ELSE IF ~ch.ok
                  THEN [path |-> p, ok |-> FALSE, val |-> <<>>, err |-> ch.err]
                  ELSE [path |-> p, ok |-> TRUE,
                        val |-> [k \in 1..Len(ch.val) |-> ch.val[k].name], err |-> "none"]
    /\ pc' = "done"
    /\ UNCHANGED <<buildVars, archive, opened, reader>>
    /\ UNCHANGED builderVars
    /\ UNCHANGED frontVars

ReaderNext ==
    \/ Write
    \/ Finish
    \/ Present
    \/ ReaderNew
    \/ ReaderRead
    \/ ReaderList

SpecReader == ReaderInit /\ [][ReaderNext]_vars

(***************************************************************************)
(* bin/builder.rs: main.  The worker threads take the flavors from the     *)
(* channel, run the generator, and pack its output into the Tree under the *)
(* mutex m; main then adds the root and writes the Tree.                   *)
(***************************************************************************)
NumThreads == 2

Threads == 1..NumThreads

\* what the generator leaves in doc_crate_dir
BuilderDocs ==
    {PutEntry(EmptyTree, <<NameA>>, FileEntry(C1111)),
     PutEntry(PutEntry(PutEntry(EmptyTree, <<NameXHtml>>, FileEntry(CHtmlA)),
                       <<NameD>>, DirEntry),
              <<NameD, NameA>>, FileEntry(C1111)),
     PutEntry(EmptyTree, <<NameHidden>>, FileEntry(C1111))}

Idle == [pc |-> "recv", flavor |-> <<>>]

\* a thread panicked while it held m
Poisoned == \E k \in DOMAIN worker : worker[k].pc = "panicked"

otherVars == <<i, buildTree, nodes, opened, reader, lastRead>>

BuilderInit ==
    /\ pc = "workers"
    /\ flavors \in FlavorLists
    /\ docTree \in BuilderDocs
    /\ i = 1
    /\ buildTree = EmptyTree
    /\ w = NewTreeWriter(NoCompress)
    /\ todo = <<>>
    /\ nodes = <<>>
    /\ calls = <<>>
    /\ archive = <<>>
    /\ opened = NotOpened
    /\ reader = NoReader
    /\ lastRead = NoRead
    /\ rx = flavors
    /\ worker = [k \in Threads |-> Idle]
    /\ zup_tree = NewTree
    /\ zup_flavors = <<>>
    /\ \E path \in BOOLEAN : statics = [NoStatics EXCEPT !.path = path]
    /\ NoFront

\* rx.recv(): the next flavor, or the end of the loop when the channel is
\* empty and closed
Recv(k) ==
    /\ pc = "workers"
    /\ worker[k].pc = "recv"
    /\ IF rx = <<>>
       THEN worker' = [worker EXCEPT ![k].pc = "done"] /\ rx' = rx
       ELSE /\ worker' = [worker EXCEPT ![k] = [pc |-> "cargo", flavor |-> Head(rx)]]
            /\ rx' = Tail(rx)
    /\ UNCHANGED <<pc, flavors, docTree, w, todo, calls, archive, otherVars>>
    /\ UNCHANGED <<zup_tree, zup_flavors, statics>>
    /\ UNCHANGED frontVars

\* the generator has returned: the rest of the loop body, under m
Documented(k) ==
    /\ pc = "workers"
    /\ worker[k].pc = "cargo"
    /\ \E success \in BOOLEAN :
          LET r == pack_inner(zup_tree, docTree, <<>>)
          IN  IF Poisoned
              THEN /\ worker' = [worker EXCEPT ![k].pc = "panicked"]
                   /\ UNCHANGED <<pc, zup_tree, zup_flavors, statics>>
              ELSE IF ~success
              THEN /\ pc' = "exit1"
                   /\ UNCHANGED <<worker, zup_tree, zup_flavors, statics>>
              ELSE IF ~r.id.some
              THEN /\ worker' = [worker EXCEPT ![k].pc = "panicked"]
                   /\ zup_tree' = r.tree
                   /\ UNCHANGED <<pc, zup_flavors, statics>>
              ELSE /\ zup_tree' = r.tree
                   /\ zup_flavors' =
                          Append(zup_flavors, DirectoryEntry(worker[k].flavor, r.id.val))
                   /\ statics' = builder_copy_statics(statics, Len(zup_flavors) + 1)
                   /\ worker' = [worker EXCEPT ![k] = Idle]
                   /\ pc' = pc
    /\ UNCHANGED <<flavors, docTree, w, todo, calls, archive, otherVars, rx>>
    /\ UNCHANGED frontVars

\* the dictionaries Tree::write can train from the files of the Tree
TreeDictionaries(tree) ==
    {tree.nodes[id].data : id \in {x \in DOMAIN tree.nodes :
                                      ~tree.nodes[x].dir /\ tree.nodes[x].data # <<>>}}

\* after the scope: the flavors directory, the two files and the root are
\* added, then Tree::write creates the Writer
WriteTree ==
    /\ pc = "workers"
    /\ \A k \in DOMAIN worker : worker[k].pc \in {"done", "panicked"}
    /\ IF Poisoned
       THEN pc' = "panic" /\ UNCHANGED <<zup_tree, w, todo>>
       ELSE LET fl == add_node(zup_tree, DirectoryNode(zup_flavors))
                mf == add_node(fl.tree, FileNode(ManifestBytes))
                inf == add_node(mf.tree, FileNode(InfoBytes))
                zup_root == add_node(inf.tree,
                               DirectoryNode(<<DirectoryEntry(NameFlavors, fl.id),
                                               DirectoryEntry(NameCargoToml, mf.id),
                                               DirectoryEntry(NameInfoJson, inf.id)>>))
            IN  /\ zup_tree' = zup_root.tree
                /\ \/ /\ \/ w' = NewTreeWriter(NoCompress)
                         \/ \E dict \in TreeDictionaries(zup_root.tree), zok \in BOOLEAN :
                               w' = NewTreeWriter(WriterCompress(dict, zok))
                      /\ todo' = PostOrderIds(zup_root.tree, zup_root.id)
                      /\ pc' = "treewrite"
                   \/ \* zstd::dict::from_samples(..).unwrap() fails
                      /\ pc' = "panic"
                      /\ UNCHANGED <<w, todo>>
    /\ UNCHANGED <<flavors, docTree, calls, archive, otherVars>>
    /\ UNCHANGED <<rx, worker, zup_flavors, statics>>
    /\ UNCHANGED frontVars

\* one call of Writer::write(node_id) returns
TreeWrite ==
    /\ pc = "treewrite"
    /\ todo # <<>>
    /\ LET r == Tree_Writer_write(w, zup_tree, Head(todo))
       IN  /\ w' = r.w
           /\ calls' = IF r.cached THEN calls
                       ELSE Append(calls,
                               [node_id |-> Head(todo), dir |-> zup_tree.nodes[Head(todo)].dir,
                                payload |-> r.payload, node |-> r.node,
                                before |-> w.offset, after |-> r.w.offset])
    /\ todo' = Tail(todo)
    /\ UNCHANGED <<pc, flavors, docTree, archive, otherVars, builderVars>>
    /\ UNCHANGED frontVars

\* w.finish(root)
TreeFinish ==
    /\ pc = "treewrite"
    /\ todo = <<>>
    /\ w' = Writer_finish(w, calls[Len(calls)].node)
    /\ archive' = w'.f
    /\ pc' = "treesealed"
    /\ UNCHANGED <<flavors, docTree, todo, calls, otherVars, builderVars>>
    /\ UNCHANGED frontVars

BuilderNext ==
    \/ \E k \in Threads : Recv(k)
    \/ \E k \in Threads : Documented(k)
    \/ WriteTree
    \/ TreeWrite
    \/ TreeFinish

SpecBuilder == BuilderInit /\ [][BuilderNext]_vars

(***************************************************************************)
(* The copy of static.files: commands/build.rs and bin/builder.rs, each    *)
(* with and without output_static, up to the creation of the Writer.       *)
(***************************************************************************)
StaticsInit ==
    \/ /\ RunInit
       /\ \E path \in BOOLEAN : statics = [NoStatics EXCEPT !.path = path]
    \/ BuilderInit

StaticsNext ==
    \/ Generate
    \/ CargoExit
    \/ ProcessFlavor
    \/ PackCreate
    \/ \E k \in Threads : Recv(k)
    \/ \E k \in Threads : Documented(k)
    \/ WriteTree

SpecStatics == StaticsInit /\ [][StaticsNext]_vars

(***************************************************************************)
(* commands/build.rs and bin/builder.rs: calc_flavors, and the start of    *)
(* run up to the batch of the generator.                                   *)
(***************************************************************************)
MaxRules == 2

\* the strings of the manifests: the features s4, s7 and n of the crate, the
\* global feature g, the feature x of a rule, the targets t and u
FeatS4 == <<115, 52>>
FeatS7 == <<115, 55>>
FeatN == <<110>>
FeatG == <<103>>
FeatX == <<120>>
TargetT == <<116>>
TargetU == <<117>>
NameDefault == <<100, 101, 102, 97, 117, 108, 116>>

\* Option<String>: None
NoString == [some |-> FALSE, val |-> <<>>]

\* a regex is a sequence of literal bytes and of the tokens ".*", "^" and "$"
ReAny == 0
ReStart == 1
ReEnd == 2

\* format!("^{}$", re)
anchored(re) == <<ReStart>> \o re \o <<ReEnd>>

\* the regex matches at the head of s; start tells whether s is the whole
\* haystack
RECURSIVE match_here(_, _, _)
match_here(re, s, start) ==
    IF re = <<>> THEN TRUE
    ELSE IF re[1] = ReStart THEN start /\ match_here(Tail(re), s, start)
    ELSE IF re[1] = ReEnd THEN s = <<>> /\ match_here(Tail(re), s, start)
    ELSE IF re[1] = ReAny
    THEN \E k \in 0..Len(s) : match_here(Tail(re), DropTo(s, k + 1), start /\ k = 0)
    ELSE s # <<>> /\ s[1] = re[1] /\ match_here(Tail(re), Tail(s), FALSE)

\* Regex::is_match: the regex matches somewhere in s
is_match(re, s) == \E k \in 0..Len(s) : match_here(re, DropTo(s, k + 1), k = 0)

Flavor(name, features, target) == [name |-> name, features |-> features, target |-> target]

\* the regex arm of the match: the keys of manifest.features that the anchored
\* regex matches and that are not in processed, each with itself as its
\* features
regex_name_feats(keys, re, processed) ==
    LET hit(f) == is_match(anchored(re), f) /\ f \notin processed
        feats == SelectSeq(keys, hit)
    IN  [k \in 1..Len(feats) |-> [name |-> feats[k], features |-> <<feats[k]>>]]

\* a match in which a rule with both keys or with none counts as a rule
\* without bases
name_feats_of_lenient(m, rule, processed, dedup) ==
    IF rule.name.some /\ ~rule.regex_feature.some
    THEN [ok |-> TRUE, val |-> <<[name |-> rule.name.val, features |-> <<>>]>>,
          processed |-> processed]
    ELSE [ok |-> TRUE, val |-> <<>>, processed |-> processed]

\* the match on (rule.name, rule.regex_feature): name_feats, or the panic.
\* processed is the set of build.rs; dedup is FALSE for bin/builder.rs, which
\* has no such set
name_feats_of(m, rule, processed, dedup) ==
    IF rule.name.some /\ ~rule.regex_feature.some
    THEN [ok |-> TRUE, val |-> <<[name |-> rule.name.val, features |-> <<>>]>>,
          processed |-> processed]
    ELSE IF ~rule.name.some /\ rule.regex_feature.some
    THEN LET nf == regex_name_feats(m.features, rule.regex_feature.val,
                                    IF dedup THEN processed ELSE {})
         IN  [ok |-> TRUE, val |-> nf,
              processed |-> processed \cup {nf[k].name : k \in 1..Len(nf)}]
    ELSE [ok |-> FALSE, val |-> <<>>, processed |-> processed]

\* the features of the rule put before those of the manifest
flavor_features_rule_first(m, rule, base) == base.features \o rule.features \o m.docs.features

\* the features and the target of the flavor pushed for a base
flavor_features(m, rule, base) == base.features \o m.docs.features \o rule.features

\* rule.target.clone().or(docs.target.clone())
flavor_target(m, rule) == IF rule.target.some THEN rule.target ELSE m.docs.target

\* a flavor default without features
default_flavor_bare(m) == Flavor(NameDefault, <<>>, m.docs.target.val)

\* the flavor pushed when docs.flavors is empty
default_flavor(m) == Flavor(NameDefault, m.docs.features, m.docs.target.val)

\* one turn of the loop over docs.flavors
rule_turn(m, c, dedup) ==
    LET rule == m.docs.flavors[c.rule]
        nf == name_feats_of(m, rule, c.processed, dedup)
        target == flavor_target(m, rule)
    IN  IF ~nf.ok THEN [c EXCEPT !.pc = "panic", !.err = "InvalidFlavor"]
        ELSE IF nf.val # <<>> /\ ~target.some
        THEN [c EXCEPT !.pc = "panic", !.err = "MissingTarget"]
        ELSE [c EXCEPT !.rule = @ + 1,
                       !.processed = nf.processed,
                       !.origin = @ \o [k \in 1..Len(nf.val) |-> c.rule],
                       !.flavors = @ \o [k \in 1..Len(nf.val) |->
                                            Flavor(nf.val[k].name,
                                                   flavor_features(m, rule, nf.val[k]),
                                                   target.val)]]

\* the rules of the manifests: explicit names (one of them the name of a
\* feature), regexes (s.*, .*, and s, which no feature equals), a rule with both
\* keys and a rule with none
Rules ==
    {[name |-> Some(NameA), regex_feature |-> NoString,
      features |-> <<FeatX>>, target |-> Some(TargetU)],
     [name |-> Some(NameA), regex_feature |-> NoString,
      features |-> <<>>, target |-> NoString],
     [name |-> Some(FeatS4), regex_feature |-> NoString,
      features |-> <<>>, target |-> Some(TargetU)],
     [name |-> NoString, regex_feature |-> Some(<<115, ReAny>>),
      features |-> <<FeatX>>, target |-> NoString],
     [name |-> NoString, regex_feature |-> Some(<<ReAny>>),
      features |-> <<>>, target |-> Some(TargetU)],
     [name |-> NoString, regex_feature |-> Some(<<115>>),
      features |-> <<>>, target |-> Some(TargetU)],
     [name |-> Some(NameB), regex_feature |-> Some(<<ReAny>>),
      features |-> <<>>, target |-> Some(TargetU)],
     [name |-> NoString, regex_feature |-> NoString,
      features |-> <<>>, target |-> Some(TargetU)]}

\* manifest.features.keys(): the order of a HashMap is any order
KeyOrders == {<<FeatS4, FeatS7, FeatN>>, <<FeatN, FeatS7, FeatS4>>}

Manifests ==
    {[features |-> keys,
      docs |-> [flavors |-> rules, target |-> target, features |-> features]] :
        keys \in KeyOrders,
        rules \in UNION {[1..n -> Rules] : n \in 0..MaxRules},
        target \in {NoString, Some(TargetT)},
        features \in {<<>>, <<FeatG>>}}

\* the lines that number the artifact directories from 1
batch_lines_from_one(fl) ==
    [k \in 1..Len(fl) |->
        [artifact_dir |-> k, features |-> fl[k].features, target |-> fl[k].target]]

\* the lines of the batch: for (i, flavor) in flavors.iter().enumerate(), the
\* artifact directory <cargo_out_dir>/<i>, the features and the target
batch_lines(fl) ==
    [k \in 1..Len(fl) |->
        [artifact_dir |-> k - 1, features |-> fl[k].features, target |-> fl[k].target]]

\* no generator was spawned
NoBatch == [spawned |-> 0, lines |-> <<>>]

\* origin is history: the index of the rule that each flavor was pushed for
NoCalc == [pc |-> "start", rule |-> 1, flavors |-> <<>>, processed |-> {}, err |-> "none",
           origin |-> <<>>]

\* run has loaded the manifest and calls calc_flavors
FlavorsInit ==
    /\ pc = "calc_flavors"
    /\ manifest \in Manifests
    /\ calc = NoCalc
    /\ flavors = <<>>
    /\ docTree = EmptyTree
    /\ i = 1
    /\ buildTree = EmptyTree
    /\ w = NewWriter(NoCompress)
    /\ todo = <<>>
    /\ nodes = <<>>
    /\ calls = <<>>
    /\ archive = <<>>
    /\ opened = NotOpened
    /\ reader = NoReader
    /\ lastRead = NoRead
    /\ NoBuilder
    /\ site = <<>>
    /\ req = <<>>
    /\ resp = <<>>
    /\ batch = NoBatch
    /\ destination = NoDest

calcOther == <<docTree, i, buildTree, w, todo, nodes, calls, archive, opened, reader,
               lastRead, builderVars, site, req, resp, destination>>

\* the head of calc_flavors: the flavor default when docs.flavors is empty
CalcDefault ==
    /\ pc = "calc_flavors"
    /\ calc.pc = "start"
    /\ calc' = IF manifest.docs.flavors # <<>> THEN [calc EXCEPT !.pc = "rules"]
               ELSE IF ~manifest.docs.target.some
               THEN [calc EXCEPT !.pc = "panic", !.err = "MissingTarget"]
               ELSE [calc EXCEPT !.pc = "rules",
                                 !.origin = <<0>>,
                                 !.flavors = <<default_flavor(manifest)>>]
    /\ UNCHANGED <<pc, flavors, manifest, calcOther, batch>>

\* commands/build.rs: one turn of the loop over the rules
CalcRule ==
    /\ pc = "calc_flavors"
    /\ calc.pc = "rules"
    /\ calc.rule <= Len(manifest.docs.flavors)
    /\ calc' = rule_turn(manifest, calc, TRUE)
    /\ UNCHANGED <<pc, flavors, manifest, calcOther, batch>>

\* bin/builder.rs: one turn of the loop over the rules
BuilderCalcRule ==
    /\ pc = "calc_flavors"
    /\ calc.pc = "rules"
    /\ calc.rule <= Len(manifest.docs.flavors)
    /\ calc' = rule_turn(manifest, calc, FALSE)
    /\ UNCHANGED <<pc, flavors, manifest, calcOther, batch>>

\* after the loop: assert!(!flavors.is_empty()), and the return
CalcReturn ==
    /\ pc = "calc_flavors"
    /\ calc.pc = "rules"
    /\ calc.rule > Len(manifest.docs.flavors)
    /\ calc' = IF calc.flavors = <<>> THEN [calc EXCEPT !.pc = "panic", !.err = "assert"]
               ELSE [calc EXCEPT !.pc = "returned"]
    /\ UNCHANGED <<pc, flavors, manifest, calcOther, batch>>

\* run, with the flavors that calc_flavors returned: the generator is
\* spawned, the batch is written to it, one line per flavor, and it runs
CargoBatch ==
    /\ pc = "calc_flavors"
    /\ calc.pc = "returned"
    /\ flavors' = [k \in 1..Len(calc.flavors) |-> calc.flavors[k].name]
    /\ batch' = [spawned |-> batch.spawned + 1,
                 lines |-> batch.lines \o batch_lines(calc.flavors)]
    /\ pc' = "cargo"
    /\ UNCHANGED <<manifest, calc, calcOther>>

FlavorsNext ==
    \/ CalcDefault
    \/ CalcRule
    \/ CalcReturn
    \/ CargoBatch

SpecFlavors == FlavorsInit /\ [][FlavorsNext]_vars

BuilderFlavorsNext ==
    \/ CalcDefault
    \/ BuilderCalcRule
    \/ CalcReturn
    \/ CargoBatch

SpecBuilderFlavors == FlavorsInit /\ [][BuilderFlavorsNext]_vars

(***************************************************************************)
(* bin/builder.rs: the loop body of a worker in the steps it takes under   *)
(* the Mutex m, for num_threads from 0 to NumThreads.                      *)
(***************************************************************************)
\* the worker holds the guard of m
InM(wk) == wk.pc \in {"locked", "packed"}

\* m.lock() returns: no other thread holds the guard
m_lock(wk, k) == \A j \in DOMAIN wk \ {k} : ~InM(wk[j])

WorkersInit ==
    /\ pc = "workers"
    /\ flavors \in FlavorLists
    /\ docTree \in BuilderDocs
    /\ i = 1
    /\ buildTree = EmptyTree
    /\ w = NewTreeWriter(NoCompress)
    /\ todo = <<>>
    /\ nodes = <<>>
    /\ calls = <<>>
    /\ archive = <<>>
    /\ opened = NotOpened
    /\ reader = NoReader
    /\ lastRead = NoRead
    /\ rx = flavors
    /\ \E num_threads \in 0..NumThreads : worker = [k \in 1..num_threads |-> Idle]
    /\ zup_tree = NewTree
    /\ zup_flavors = <<>>
    /\ statics = NoStatics
    /\ NoFront

\* the generator has returned and m.lock().unwrap() returns the guard, or
\* panics when a thread panicked with the guard
Lock(k) ==
    /\ pc = "workers"
    /\ worker[k].pc = "cargo"
    /\ m_lock(worker, k)
    /\ worker' = [worker EXCEPT ![k].pc = IF Poisoned THEN "panicked" ELSE "locked"]
    /\ UNCHANGED <<pc, flavors, docTree, w, todo, calls, archive, otherVars, rx>>
    /\ UNCHANGED <<zup_tree, zup_flavors, statics>>
    /\ UNCHANGED frontVars

\* under the guard: process::exit(1) when the generator failed, else
\* zup_tree.pack(..).unwrap().unwrap()
Pack(k) ==
    /\ pc = "workers"
    /\ worker[k].pc = "locked"
    /\ \E success \in BOOLEAN :
          LET r == pack_inner(zup_tree, docTree, <<>>)
          IN  IF ~success
              THEN /\ pc' = "exit1"
                   /\ UNCHANGED <<worker, zup_tree>>
              ELSE IF ~r.id.some
              THEN /\ worker' = [worker EXCEPT ![k].pc = "panicked"]
                   /\ zup_tree' = r.tree
                   /\ pc' = pc
              ELSE /\ zup_tree' = r.tree
                   /\ worker' = [worker EXCEPT ![k] =
                          [pc |-> "packed", flavor |-> worker[k].flavor, dir |-> r.id.val]]
                   /\ pc' = pc
    /\ UNCHANGED <<flavors, docTree, w, todo, calls, archive, otherVars, rx>>
    /\ UNCHANGED <<zup_flavors, statics>>
    /\ UNCHANGED frontVars

\* under the guard: zup_flavors.push, the copy of the static files, and the
\* end of the loop body, where the guard is dropped
Push(k) ==
    /\ pc = "workers"
    /\ worker[k].pc = "packed"
    /\ zup_flavors' = Append(zup_flavors, DirectoryEntry(worker[k].flavor, worker[k].dir))
    /\ statics' = builder_copy_statics(statics, Len(zup_flavors) + 1)
    /\ worker' = [worker EXCEPT ![k] = Idle]
    /\ UNCHANGED <<pc, flavors, docTree, w, todo, calls, archive, otherVars, rx, zup_tree>>
    /\ UNCHANGED frontVars

WorkersNext ==
    \/ \E k \in DOMAIN worker : Recv(k)
    \/ \E k \in DOMAIN worker : Lock(k)
    \/ \E k \in DOMAIN worker : Pack(k)
    \/ \E k \in DOMAIN worker : Push(k)
    \/ WriteTree

SpecWorkers == WorkersInit /\ [][WorkersNext]_vars

(***************************************************************************)
(* commands/build.rs: run from calc_flavors to the end of pack, on the     *)
(* manifests of at most one rule that give a global target.                *)
(***************************************************************************)
RunManifests ==
    {m \in Manifests :
        /\ Len(m.docs.flavors) <= 1
        /\ m.docs.target.some
        /\ m.docs.features = <<FeatG>>}

WholeRunInit ==
    /\ FlavorsInit
    /\ manifest \in RunManifests

WholeRunNext ==
    \/ CalcDefault
    \/ CalcRule
    \/ CalcReturn
    \/ CargoBatch
    \/ GenerateDocs
    \/ CargoExit
    \/ ProcessFlavor
    \/ PackCreate
    \/ Write
    \/ Finish

SpecWholeRun == WholeRunInit /\ [][WholeRunNext]_vars

(***************************************************************************)
(* bin/server.rs: serve_inner.  Strings are byte strings; an archive is    *)
(* held as the tree that its listings describe.                            *)
(***************************************************************************)
Slash == 47
Dash == 45
Underscore == 95

NameDot == <<46>>
NameDotDot == <<46, 46>>
NameC == <<99>>
NameZZ == <<122, 122>>
NameStatic == <<115, 116, 97, 116, 105, 99>>
NameIndexHtml == <<105, 110, 100, 101, 120, 46, 104, 116, 109, 108>>
KratePK == <<112, Dash, 107>>
DefaultKrate == <<101, 109, 98, 97, 115, 115, 121, Dash, 101, 120, 101, 99, 117, 116, 111, 114>>
Version1 == <<49>>
Version9 == <<57>>
CookieCrate == <<99, 114, 97, 116, 101>>
SuffixFlavor == <<Dash, 102, 108, 97, 118, 111, 114>>
SuffixVersion == <<Dash, 118, 101, 114, 115, 105, 111, 110>>

\* str::split(sep): the pieces of s between the separators
split(s, sep) ==
    LET at == {k \in 1..Len(s) : s[k] = sep}
        nth(k) == IF k = 0 THEN 0
                  ELSE IF k > Cardinality(at) THEN Len(s) + 1
                  ELSE CHOOSE x \in at : Cardinality({y \in at : y < x}) = k - 1
    IN  [k \in 1..(Cardinality(at) + 1) |-> SubSeq(s, nth(k - 1) + 1, nth(k) - 1)]

\* [..].join(sep)
join(segs, sep) ==
    Concat([k \in 1..Len(segs) |-> IF k = 1 THEN segs[k] ELSE <<sep>> \o segs[k]])

\* a loop over raw_path.split('/') that keeps a ".." met while the list is
\* empty
RECURSIVE path_segments_keep(_, _)
path_segments_keep(xs, path) ==
    IF xs = <<>> THEN path
    ELSE The({path_segments_keep(rest, next) :
                 rest \in {Tail(xs)},
                 next \in {IF Head(xs) \in {<<>>, NameDot} THEN path
                           ELSE IF Head(xs) = NameDotDot /\ path # <<>> THEN Front(path)
                           ELSE Append(path, Head(xs))}})

\* the loop of serve_inner over raw_path.split('/')
RECURSIVE path_segments(_, _)
path_segments(xs, path) ==
    IF xs = <<>> THEN path
    ELSE The({path_segments(rest, next) :
                 rest \in {Tail(xs)},
                 next \in {IF Head(xs) \in {<<>>, NameDot} THEN path
                           ELSE IF Head(xs) = NameDotDot THEN Front(path)
                           ELSE Append(path, Head(xs))}})

\* krate.replace('-', "_")
replace_dash(name) ==
    [k \in 1..Len(name) |-> IF name[k] = Dash THEN Underscore ELSE name[k]]

\* format!("crate-{}-flavor", krate) and format!("crate-{}-version", krate)
cookie_flavor(krate) == CookieCrate \o <<Dash>> \o krate \o SuffixFlavor

cookie_version(krate) == CookieCrate \o <<Dash>> \o krate \o SuffixVersion

\* Thing::cookies: the items of the Cookie header, a later one over an earlier
cookies(request) ==
    [k \in {request.cookie[n][1] : n \in 1..Len(request.cookie)} |->
        LET last == CHOOSE n \in 1..Len(request.cookie) :
                        /\ request.cookie[n][1] = k
                        /\ \A m \in 1..Len(request.cookie) :
                              request.cookie[m][1] = k => m <= n
        IN  request.cookie[last][2]]

\* HashMap::get
cookie_get(cs, k) == IF k \in DOMAIN cs THEN Some(cs[k]) ELSE NoString

Resp(status) == [status |-> status, location |-> <<>>, file |-> <<>>, body |-> <<>>]

resp_404 == Resp(404)

resp_405 == Resp(405)

resp_500 == Resp(500)

resp_redirect(path) == [Resp(302) EXCEPT !.location = path]

\* a panic of the task that serves the connection
resp_panic == Resp(0)

\* Reader::open and Reader::read of zup/read.rs, on the tree of an archive
zup_open(tree, path) ==
    IF path \in DOMAIN tree THEN Ok(path)
    ELSE IF tree[Deepest(tree, path)].dir THEN Err("NotFound")
    ELSE Err("NotADirectory")

zup_read(tree, path) ==
    LET n == zup_open(tree, path)
    IN  IF ~n.ok THEN n
        ELSE IF tree[path].dir THEN Err("IsADirectory")
        ELSE Ok(tree[path].data)

\* Thing::crate_zup: Reader::new on crates/<krate>/<version>.zup
crate_zup(s, krate, version) ==
    IF krate \in DOMAIN s.crates /\ version \in DOMAIN s.crates[krate]
    THEN Ok(s.crates[krate][version])
    ELSE Err("NotFound")

\* Thing::list_crates
list_crates(s) == SortNames(DOMAIN s.crates)

\* Thing::list_versions: sorted in reverse
list_versions(s, krate) ==
    IF krate \notin DOMAIN s.crates THEN Err("NotFound")
    ELSE LET up == SortNames(DOMAIN s.crates[krate])
         IN  Ok([k \in 1..Len(up) |-> up[Len(up) + 1 - k]])

\* Thing::list_flavors
list_flavors(s, krate, version) ==
    LET z == crate_zup(s, krate, version)
    IN  IF ~z.ok THEN z
        ELSE IF ~zup_open(z.val, <<NameFlavors>>).ok THEN zup_open(z.val, <<NameFlavors>>)
        ELSE IF ~z.val[<<NameFlavors>>].dir THEN Err("panic")
        ELSE Ok(SortNames(ChildNames(z.val, <<NameFlavors>>)))

\* the flavor to redirect to: the cookie's, or flavors[0] without a cookie or
\* when the cookie's is not in the list.  flavors[0] panics on an empty list.
pick_flavor(fl, cs, krate) ==
    LET flavor == cookie_get(cs, cookie_flavor(krate))
    IN  IF fl = <<>> THEN Err("panic")
        ELSE IF flavor.some /\ \E k \in 1..Len(fl) : fl[k] = flavor.val
        THEN Ok(flavor.val)
        ELSE Ok(fl[1])

\* "/{}/{}/{}/{}"
url4(krate, version, flavor, rest) ==
    <<Slash>> \o krate \o <<Slash>> \o version \o <<Slash>> \o flavor \o <<Slash>> \o rest

\* Thing::guess_redirect
guess_redirect(s, request, krate0, version0) ==
    LET cs == cookies(request)
        krates == list_crates(s)
        krate1 == IF krate0.some THEN krate0 ELSE cookie_get(cs, CookieCrate)
        krate2 == IF krate1.some THEN krate1.val ELSE DefaultKrate
        krate == IF \E k \in 1..Len(krates) : krates[k] = krate2
                 THEN krate2 ELSE DefaultKrate
        versions == list_versions(s, krate)
        version1 == IF version0.some THEN version0
                    ELSE cookie_get(cs, cookie_version(krate))
        version == IF version1.some
                      /\ \E k \in 1..Len(versions.val) : versions.val[k] = version1.val
                   THEN version1.val ELSE versions.val[1]
        fl == list_flavors(s, krate, version)
        flavor == pick_flavor(fl.val, cs, krate)
    IN  IF ~versions.ok THEN resp_500
        ELSE IF versions.val = <<>> THEN resp_panic
        ELSE IF ~fl.ok THEN (IF fl.err = "panic" THEN resp_panic ELSE resp_500)
        ELSE IF ~flavor.ok THEN resp_panic
        ELSE resp_redirect(url4(krate, version, flavor.val, NameIndexHtml))

\* Thing::serve_static: fs::read of static/<pathh>, which fails on the
\* directory itself
serve_static(s, pathh) ==
    IF pathh = <<>> THEN resp_500
    ELSE IF pathh \in s.static THEN [Resp(200) EXCEPT !.file = <<NameStatic, pathh>>]
    ELSE resp_404

(***************************************************************************)
(* The rewriting of a served page.  A page is a byte string in which these *)
(* bytes stand for the fragments the handler looks for; none of those it   *)
(* looks for holds a double quote.                                         *)
(***************************************************************************)
Quote == 34
Hash == 35
LetterL == 76
\* href
TokHrefAttr == 211
\* src
TokSrcAttr == 212
\* =
TokEq == 61
\* /__DOCSERVER_SRCLINK
SentSrcLink == 213
\* /__DOCSERVER_DEPLINK
SentDepLink == 214
\* $VERSION
TokVersionVar == 215
\* $COMMIT
TokCommitVar == 216
\* </head>
TokHeadClose == 217
\* <body class=
TokBodyClass == 218
\* >
TokGt == 62
\* the rendering of head.html
TokRenderedHead == 219
\* <body>, the rendering of nav.html and <div class="body-wrapper
TokBodyWrapper == 220
\* "git"
VersionGit == <<103, 105, 116>>

\* extension of bin/server: what follows the last '.', or "" without one
server_extension(name) ==
    LET dots == {k \in 1..Len(name) : name[k] = 46}
    IN  IF dots = {} THEN <<>>
        ELSE DropTo(name, (CHOOSE k \in dots : \A j \in dots : j <= k) + 1)

\* str::find of one byte: the first index, or 0
find(str, b) ==
    LET at == {k \in 1..Len(str) : str[k] = b}
    IN  IF at = {} THEN 0 ELSE CHOOSE k \in at : \A j \in at : k <= j

\* str::replace(from, to): the occurrences of from, left to right, none
\* overlapping another
RECURSIVE str_replace(_, _, _)
str_replace(str, from, to) ==
    IF str = <<>> THEN <<>>
    ELSE IF IsPrefix(from, str)
    THEN to \o The({str_replace(d, from, to) : d \in {DropTo(str, Len(from) + 1)}})
    ELSE <<Head(str)>> \o The({str_replace(d, from, to) : d \in {Tail(str)}})

\* str::split_once('/')
split_once(str, b) ==
    LET k == find(str, b)
    IN  IF k = 0 THEN None
        ELSE Some(<<SubSeq(str, 1, k - 1), DropTo(str, k + 1)>>)

\* src_base = "h$VERSION/", src_base_git = "g$COMMIT/" and git_commit = "cc"
SiteManifest == <<104, TokVersionVar, Slash, TokNewline, 103, TokCommitVar, Slash>>

SiteCommit == <<99, 99>>

\* the manifest and the info of an archive, as the server decodes them: the
\* manifest bytes are src_base, a newline and src_base_git; the info bytes
\* are git_commit
srclink_base(tree, version) ==
    LET manifest_ == zup_read(tree, <<NameCargoToml>>)
        info == zup_read(tree, <<NameInfoJson>>)
        meta == split(manifest_.val, TokNewline)
    IN  IF ~manifest_.ok \/ ~info.ok \/ Len(meta) # 2 THEN Err("panic")
        ELSE IF version = VersionGit
        THEN Ok(str_replace(meta[2], <<TokCommitVar>>, info.val))
        ELSE Ok(str_replace(meta[1], <<TokVersionVar>>, version))

\* the closure of replace_all on one attribute value
rewrite_link(link0, base, flavor) ==
    LET src == IF IsPrefix(<<SentSrcLink, Slash>>, link0)
               THEN LET link_path == DropTo(link0, 3)
                        k == find(link_path, Hash)
                    IN  IF k = 0 THEN Err("panic")
                        ELSE Ok(base
                                \o str_replace(SubSeq(link_path, 1, k - 1), DotHtml, <<>>)
                                \o <<Hash, LetterL>>
                                \o str_replace(DropTo(link_path, k + 1),
                                               <<Dash>>, <<Dash, LetterL>>))
               ELSE Ok(link0)
    IN  IF ~src.ok THEN src
        ELSE IF IsPrefix(<<SentDepLink, Slash>>, src.val)
        THEN LET one == split_once(DropTo(src.val, 3), Slash)
                 two == split_once(one.val[2], Slash)
             IN  IF ~one.some THEN Err("panic")
                 ELSE IF ~two.some THEN Err("panic")
                 ELSE Ok(<<Slash>> \o one.val[1] \o <<Slash>> \o VersionGit \o <<Slash>>
                         \o flavor \o <<Slash>> \o two.val[2])
        ELSE src

\* re.replace_all(data, closure) for (src|href)="([^"]+)": the matches from
\* left to right, none overlapping another
RECURSIVE rewrite_links(_, _, _)
rewrite_links(data, base, flavor) ==
    IF data = <<>> THEN Ok(<<>>)
    ELSE LET close == find(DropTo(data, 4), Quote)
             matches == /\ Len(data) >= 5
                        /\ data[1] \in {TokSrcAttr, TokHrefAttr}
                        /\ data[2] = TokEq
                        /\ data[3] = Quote
                        /\ data[4] # Quote
                        /\ close # 0
             link == rewrite_link(SubSeq(data, 4, close + 2), base, flavor)
             rest == The({rewrite_links(d, base, flavor) :
                          d \in {IF matches THEN DropTo(data, close + 4) ELSE Tail(data)}})
         IN  IF matches /\ ~link.ok THEN link
             ELSE IF ~rest.ok THEN rest
             ELSE IF matches
             THEN Ok(<<data[1], TokEq, Quote>> \o link.val \o <<Quote>> \o rest.val)
             ELSE Ok(<<Head(data)>> \o rest.val)

\* the head and the navigation bar put into the page, when it has a </head>
\* and a <body class="...">
insert_templates(data) ==
    LET head == find(data, TokHeadClose)
        bodies == {k \in 1..Len(data) :
                     /\ data[k] = TokBodyClass
                     /\ k + 1 <= Len(data) /\ data[k + 1] = Quote
                     /\ \E q \in (k + 2)..(Len(data) - 1) :
                           /\ data[q] = Quote
                           /\ \A j \in (k + 2)..(q - 1) : data[j] # Quote
                           /\ data[q + 1] = TokGt}
        m == CHOOSE k \in bodies : \A j \in bodies : k <= j
        q == m + 1 + find(DropTo(data, m + 2), Quote)
    IN  IF head = 0 \/ bodies = {} THEN Ok(data)
        ELSE IF m < head THEN Err("panic")
        ELSE Ok(SubSeq(data, 1, head - 1) \o <<TokRenderedHead>>
                \o SubSeq(data, head, m - 1) \o <<TokBodyWrapper>>
                \o SubSeq(data, m + 2, q - 1) \o <<Quote, TokGt>>
                \o DropTo(data, q + 2))

\* what serve_inner does to the bytes of a file before it answers with them
served_body(tree, version, flavor, name, data) ==
    IF server_extension(name) # ExtHtml THEN Ok(data)
    ELSE LET base == srclink_base(tree, version)
             linked == rewrite_links(data, base.val, flavor)
         IN  IF ~base.ok THEN base
             ELSE IF ~linked.ok THEN linked
             ELSE insert_templates(linked.val)

\* the arm of the NotFound of zup.read in serve_inner
not_found(s, request, z, path) ==
    LET krate == path[1]
        version == path[2]
        fl == list_flavors(s, krate, version)
        flavor == pick_flavor(fl.val, cookies(request), krate)
    IN  IF Len(path) > 3 /\ zup_open(z, <<NameFlavors, path[4]>>).ok THEN resp_404
        ELSE IF ~fl.ok THEN (IF fl.err = "panic" THEN resp_panic ELSE resp_500)
        ELSE IF ~flavor.ok THEN resp_panic
        ELSE resp_redirect(url4(krate, version, flavor.val, join(DropTo(path, 4), Slash)))

\* the arm [krate, version, flavor, ..] of serve_inner.  The body of a 200
\* response is held as the path of the file it is made from.
serve_file(s, request, path) ==
    LET krate == path[1]
        version == path[2]
        flavor == path[3]
        z == crate_zup(s, krate, version)
        zup_path == <<NameFlavors>> \o DropTo(path, 3)
        data == zup_read(z.val, zup_path)
    IN  IF ~z.ok THEN (IF z.err = "NotFound" THEN resp_404 ELSE resp_500)
        ELSE IF Len(path) > 3 /\ path[4] = replace_dash(krate)
        THEN resp_redirect(url4(krate, version, flavor, join(DropTo(path, 5), Slash)))
        ELSE IF data.ok
        THEN LET body == served_body(z.val, version, flavor, path[Len(path)], data.val)
             IN  IF body.ok THEN [Resp(200) EXCEPT !.file = zup_path, !.body = body.val]
                 ELSE resp_panic
        ELSE IF data.err = "NotFound" THEN not_found(s, request, z.val, path)
        ELSE IF data.err = "IsADirectory"
        THEN resp_redirect(url4(krate, version, flavor,
                 Concat([k \in 1..(Len(path) - 3) |-> path[k + 3] \o <<Slash>>])
                     \o NameIndexHtml))
        ELSE resp_500

\* Thing::serve_inner, and the resp_500 of Thing::serve for its errors
serve_inner(s, request) ==
    LET path == path_segments(split(request.raw_path, Slash), <<>>)
    IN  IF request.method # "GET" THEN resp_405
        ELSE IF path # <<>> /\ path[1] = NameStatic
        THEN serve_static(s, join(Tail(path), Slash))
        ELSE IF path = <<>> THEN guess_redirect(s, request, NoString, NoString)
        ELSE IF Len(path) = 1 THEN guess_redirect(s, request, Some(path[1]), NoString)
        ELSE IF Len(path) = 2
        THEN guess_redirect(s, request, Some(path[1]), Some(path[2]))
        ELSE serve_file(s, request, path)

\* the archive of a build: flavors/<f> for each flavor, with x.html, d and d/a
\* in it, and the two files of the root
WithFlavor(tree, f) ==
    PutEntry(PutEntry(PutEntry(PutEntry(tree,
        <<NameFlavors, f>>, DirEntry),
        <<NameFlavors, f, NameXHtml>>, FileEntry(CHtmlA)),
        <<NameFlavors, f, NameD>>, DirEntry),
        <<NameFlavors, f, NameD, NameA>>, FileEntry(C1111))

BuiltRoot ==
    PutEntry(PutEntry(PutEntry(EmptyTree,
        <<NameFlavors>>, DirEntry),
        <<NameCargoToml>>, FileEntry(SiteManifest)),
        <<NameInfoJson>>, FileEntry(SiteCommit))

\* pages of the generator: a source link with a fragment, one without, a link
\* to a dependency, one that names the dependency only, a page with a head
\* and a body, and one with an attribute the handler leaves alone
PageSrcLink ==
    <<1, TokHrefAttr, TokEq, Quote, SentSrcLink, Slash, 97>> \o DotHtml
        \o <<Hash, 52, Dash, 53, Quote, 2>>

PageSrcLinkBare == <<TokSrcAttr, TokEq, Quote, SentSrcLink, Slash, 97>> \o DotHtml \o <<Quote>>

PageDepLink ==
    <<TokHrefAttr, TokEq, Quote, SentDepLink, Slash, 107, Slash, 49, Slash, 121, Quote>>

PageDepLinkBare == <<TokHrefAttr, TokEq, Quote, SentDepLink, Slash, 107, Quote>>

PageFramed ==
    <<TokHeadClose, TokBodyClass, Quote, 99, Quote, TokGt, TokHrefAttr, TokEq, Quote, Quote,
      TokSrcAttr, TokEq, Quote, 98, Quote>>

Pages == {PageSrcLink, PageSrcLinkBare, PageDepLink, PageDepLinkBare, PageFramed}

\* the archive with the page as flavors/a/x.html
WithPage(page) ==
    PutEntry(WithFlavor(WithFlavor(BuiltRoot, NameA), NameB),
             <<NameFlavors, NameA, NameXHtml>>, FileEntry(page))

\* the directory that DOCSERVER_PATH names: crates/p-k/1.zup, with the flavors
\* a and b or with b alone, and static/x; or crates/p-k/1.zup and
\* crates/p-k/git.zup, both with one of the pages
Sites ==
    {[crates |-> (KratePK :> (Version1 :> tree)), static |-> {<<120>>}] :
        tree \in {WithFlavor(WithFlavor(BuiltRoot, NameA), NameB),
                  WithFlavor(BuiltRoot, NameB)}} \cup
    {[crates |-> (KratePK :> (Version1 :> WithPage(page) @@ VersionGit :> WithPage(page))),
      static |-> {<<120>>}] : page \in Pages}

\* what follows the flavor in the paths asked
Rests ==
    {<<>>, <<NameXHtml>>, <<NameZZ>>, <<NameD>>, <<NameD, NameA>>, <<NameA, NameXHtml>>,
     <<replace_dash(KratePK), NameXHtml>>, <<NameDot, NameXHtml>>,
     <<NameDotDot, NameB, NameXHtml>>}

RawPaths ==
    {<<Slash>>, <<Slash>> \o KratePK, <<Slash>> \o KratePK \o <<Slash>> \o Version1,
     <<Slash>> \o NameStatic, <<Slash>> \o NameStatic \o <<Slash, 120>>,
     <<Slash>> \o NameStatic \o <<Slash>> \o NameZZ} \cup
    {url4(KratePK, v, f, join(rest, Slash)) :
        v \in {Version1, Version9}, f \in {NameA, NameB, NameC}, rest \in Rests} \cup
    {url4(KratePK, VersionGit, NameA, NameXHtml)} \cup
    {<<Slash>> \o join(segs, Slash) :
        segs \in {<<NameDotDot, NameStatic, NameDot, <<120>>>>,
                  <<NameStatic, NameDotDot, NameDotDot, KratePK>>,
                  <<NameStatic, <<>>, <<120>>, NameDotDot, NameDotDot, NameDotDot, NameStatic,
                    <<120>>>>,
                  <<KratePK, Version1, NameA, NameD, NameDotDot, NameDotDot, NameDotDot,
                    NameDotDot, NameDotDot, NameStatic, <<120>>>>}}

\* the items of the Cookie header
CookieHeaders ==
    {<<>>} \cup
    {<<<<cookie_flavor(KratePK), f>>>> : f \in {NameA, NameB, NameZZ}} \cup
    {<<<<cookie_flavor(KratePK), NameA>>, <<cookie_flavor(KratePK), NameB>>>>,
     <<<<CookieCrate, KratePK>>, <<cookie_version(KratePK), Version1>>>>}

Requests ==
    {[method |-> m, raw_path |-> raw, cookie |-> c] :
        m \in {"GET", "POST"}, raw \in RawPaths, c \in CookieHeaders}

serverOther == <<pc, flavors, docTree, i, buildTree, w, todo, nodes, calls, archive, opened,
                 reader, lastRead, builderVars, manifest, calc, batch, destination>>

\* a request has arrived
ServerInit ==
    /\ pc = "request"
    /\ site \in Sites
    /\ req \in Requests
    /\ resp = <<>>
    /\ flavors = <<>>
    /\ docTree = EmptyTree
    /\ i = 1
    /\ buildTree = EmptyTree
    /\ w = NewWriter(NoCompress)
    /\ todo = <<>>
    /\ nodes = <<>>
    /\ calls = <<>>
    /\ archive = <<>>
    /\ opened = NotOpened
    /\ reader = NoReader
    /\ lastRead = NoRead
    /\ NoBuilder
    /\ manifest = <<>>
    /\ calc = <<>>
    /\ batch = <<>>
    /\ destination = NoDest

\* Thing::serve
Serve ==
    /\ pc = "request"
    /\ resp' = serve_inner(site, req)
    /\ pc' = "response"
    /\ UNCHANGED <<flavors, docTree, i, buildTree, w, todo, nodes, calls, archive, opened,
                   reader, lastRead, builderVars, manifest, calc, site, req, batch, destination>>

ServerNext == Serve

SpecServer == ServerInit /\ [][ServerNext]_vars

\* the client follows the Location of a 302 response: a GET with the same
\* Cookie header
Follow ==
    /\ pc = "response"
    /\ resp.status = 302
    /\ req' = [req EXCEPT !.method = "GET", !.raw_path = resp.location]
    /\ resp' = <<>>
    /\ pc' = "request"
    /\ UNCHANGED <<flavors, docTree, i, buildTree, w, todo, nodes, calls, archive, opened,
                   reader, lastRead, builderVars, manifest, calc, site, batch, destination>>

FollowNext ==
    \/ Serve
    \/ Follow

SpecFollow == ServerInit /\ [][FollowNext]_vars

(***************************************************************************)
(* Properties of the build, of its archive and of a reader of it.          *)
(***************************************************************************)
Calls == 1..Len(calls)

\* the calls that appended a range to the file or an entry to the table
Appended(k) == ~(calls[k].fileSame /\ calls[k].tableSame /\ calls[k].after = calls[k].before)

\* the bytes of the archive in a range
BytesAt(r) == SubSeq(w.f, r.offset + 1, r.offset + r.len)

\* the names that Directory::children yields, in its order
ListedNames(ch) == [k \in 1..Len(ch) |-> ch[k].name]

\* C1: once the archive of a build is opened, Reader::read of every file path
\* of the packed directory returns exactly the bytes the file had when it was
\* packed, and every directory path opens as a directory whose children are
\* exactly the entries the directory had.
C1_RoundTrip ==
    /\ pc # "badarchive"
    /\ pc = "open" =>
         /\ \A p \in FilePaths(buildTree) :
               LET r == Reader_read(reader, p)
               IN  r.ok /\ r.val = buildTree[p].data
         /\ \A p \in DirPaths(buildTree) :
               LET n == Reader_open(reader, p)
               IN  /\ n.ok
                   /\ n.val.dir
                   /\ LET ch == children(reader, n.val.node)
                      IN  /\ ch.ok
                          /\ ListedNames(ch.val) = SortNames(ChildNames(buildTree, p))

\* C2, as stated: two paths whose payloads are byte-equal get the same Node,
\* range and flags, whatever the kinds of the two paths.
C2_EqualPayloadEqualNode ==
    \A a, b \in Calls :
        calls[a].payload = calls[b].payload
            => nodes[calls[a].path] = nodes[calls[b].path]

\* C2, amended: two paths whose payloads are byte-equal get the same range and
\* the same COMPRESSED flag; their Nodes are equal when both are files or both
\* are directories, and FLAG_DIR is set exactly on the Node of a directory.
C2_EqualPayloadSameRange ==
    \A a, b \in Calls :
        LET pa == calls[a].path
            pb == calls[b].path
        IN  calls[a].payload = calls[b].payload
            => /\ nodes[pa].range = nodes[pb].range
               /\ HasFlag(nodes[pa].flags, FLAG_COMPRESSED)
                      <=> HasFlag(nodes[pb].flags, FLAG_COMPRESSED)
               /\ HasFlag(nodes[pa].flags, FLAG_DIR) <=> buildTree[pa].dir
               /\ nodes[pa].flags < 2 * FLAG_DIR
               /\ buildTree[pa].dir = buildTree[pb].dir => nodes[pa] = nodes[pb]

\* a file and a directory of a sealed archive have byte-equal payloads that
\* are not empty
C2_Witness ==
    /\ pc = "sealed"
    /\ \E a, b \in Calls :
          /\ calls[a].payload = calls[b].payload
          /\ calls[a].payload # <<>>
          /\ buildTree[calls[a].path].dir
          /\ ~buildTree[calls[b].path].dir

\* C3: a payload whose hash is in the table is not written again: the call
\* leaves the file, the offset and the table as they were and returns the Node
\* stored by the first call with these bytes; so the ranges appended are as
\* many as the distinct payloads.
C3_StoredOnce ==
    /\ \A k \in Calls :
          calls[k].known
              => /\ ~Appended(k)
                 /\ \E j \in 1..(k - 1) :
                       /\ calls[j].payload = calls[k].payload
                       /\ calls[j].stored = calls[k].stored
    /\ \A k \in Calls : ~calls[k].known => Appended(k)
    /\ Cardinality({k \in Calls : Appended(k)})
           = Cardinality({calls[k].payload : k \in Calls})

\* a sealed archive in which a payload that is not empty was met a second time
C3_Witness ==
    /\ pc = "sealed"
    /\ \E k \in Calls : calls[k].known /\ calls[k].payload # <<>>

\* C4: a new payload is stored compressed, with FLAG_COMPRESSED, exactly when
\* compression is enabled, the compressor succeeds and its output is strictly
\* shorter than the payload; otherwise the payload is stored verbatim with the
\* flag clear.
C4_CompressedIffShorter ==
    \A k \in Calls :
        ~calls[k].known =>
            LET c == calls[k]
                cdata == zstd_compress(c.payload, w.comp.dict)
                range == MkRange(c.before, c.after - c.before)
            IN  /\ c.stored.range = range
                /\ IF w.comp.on /\ w.comp.zok /\ Len(cdata) < Len(c.payload)
                   THEN c.stored.flags = FLAG_COMPRESSED /\ BytesAt(range) = cdata
                   ELSE c.stored.flags = 0 /\ BytesAt(range) = c.payload

\* a sealed archive written with compression in which one payload was stored
\* compressed, one byte shorter, and one whose compressed form has the same
\* length was stored verbatim
C4_Witness ==
    /\ pc = "sealed"
    /\ w.comp.on
    /\ \E k \in Calls :
          /\ calls[k].stored.flags = FLAG_COMPRESSED
          /\ calls[k].stored.range.len + 1 = Len(calls[k].payload)
    /\ \E k \in Calls :
          /\ calls[k].stored.flags = 0
          /\ Len(zstd_compress(calls[k].payload, w.comp.dict)) = Len(calls[k].payload)

\* C6: FLAG_DIR is set on the Node returned for a path, and on the Node of its
\* entry in the listing of its parent, exactly when the path is a directory;
\* the Node keeps the range and the COMPRESSED flag of the stored payload; no
\* Node of the table of hashes carries FLAG_DIR.
C6_DirFlagByKind ==
    /\ \A k \in Calls :
          LET p == calls[k].path
              ls == parse_listing(calls[k].payload)
          IN  /\ HasFlag(nodes[p].flags, FLAG_DIR) <=> buildTree[p].dir
              /\ HasFlag(nodes[p].flags, FLAG_COMPRESSED)
                     <=> HasFlag(calls[k].stored.flags, FLAG_COMPRESSED)
              /\ nodes[p].range = calls[k].stored.range
              /\ buildTree[p].dir =>
                    /\ ls.ok
                    /\ \A e \in 1..Len(ls.val) :
                          LET q == Append(p, ls.val[e].name)
                          IN  /\ ls.val[e].dir <=> buildTree[q].dir
                              /\ ls.val[e].node = nodes[q]
    /\ \A h \in DOMAIN w.hash_dedup : ~HasFlag(w.hash_dedup[h].flags, FLAG_DIR)

\* a sealed archive with a directory whose listing is stored compressed, and
\* with a file and a directory that share one range of the file
C6_Witness ==
    /\ pc = "sealed"
    /\ \E p \in DirPaths(buildTree) : nodes[p].flags = FLAG_COMPRESSED + FLAG_DIR
    /\ \E p \in DirPaths(buildTree), q \in FilePaths(buildTree) :
          nodes[p].range = nodes[q].range

\* the end of the node data: the offset after the last call
DataEnd == IF calls = <<>> THEN 0 ELSE calls[Len(calls)].after

\* the 16 bytes of the dictionary range in the superblock of the archive
DictRangeOf(file) ==
    Range_from_bytes(SubSeq(file, Len(file) - SuperblockLEN + 1,
                            Len(file) - SuperblockLEN + RangeLEN))

\* C7: while nodes are written the offset is the number of bytes appended; a
\* new payload gets the range that starts at the offset before the call and
\* ends at the offset after it; every Node's range lies inside the node data;
\* with compression the dictionary range starts where the node data ends; the
\* superblock is the last 44 bytes of the file.
C7_RangesInsideData ==
    /\ pc = "write" => w.offset = Len(w.f)
    /\ \A k \in Calls :
          /\ calls[k].before = (IF k = 1 THEN 0 ELSE calls[k - 1].after)
          /\ calls[k].stored.range.offset + calls[k].stored.range.len <= calls[k].after
          /\ ~calls[k].known =>
                /\ calls[k].stored.range.offset = calls[k].before
                /\ calls[k].after = calls[k].before + calls[k].stored.range.len
    /\ \A p \in DOMAIN nodes : nodes[p].range.offset + nodes[p].range.len <= DataEnd
    /\ pc = "sealed" =>
          /\ Len(archive) = w.offset + SuperblockLEN
          /\ w.offset = DataEnd + (IF w.comp.on THEN Len(w.comp.dict) ELSE 0)
          /\ DictRangeOf(archive) =
                 (IF w.comp.on THEN MkRange(DataEnd, Len(w.comp.dict)) ELSE MkRange(0, 0))
          /\ w.comp.on => SubSeq(archive, DataEnd + 1, w.offset) = w.comp.dict
          /\ SubSeq(archive, w.offset + 1, Len(archive))
                 = Superblock_to_bytes(MkSuperblock(finish_dict([w EXCEPT !.offset = DataEnd]),
                                                    nodes[<<>>], VERSION, MAGIC))

\* a sealed archive with a trained dictionary after the data of several
\* payloads
C7_Witness ==
    /\ pc = "sealed"
    /\ w.comp.on
    /\ w.comp.dict # <<>>
    /\ Cardinality({k \in Calls : ~calls[k].known}) > 4
    /\ DictRangeOf(archive).offset = DataEnd
    /\ DataEnd > 0

\* C8: no directory of an archive has a listing with zero entries: a directory
\* left without entries by the file filter is not emitted.
C8_NoEmptyDirectory ==
    \A k \in Calls : buildTree[calls[k].path].dir => calls[k].payload # <<>>

\* the flavors copied so far
Copied == 1..(i - 1)

\* C9: in the output of the build, every included file whose name ends in
\* .html holds the rewritten bytes of the generator's file, and every other
\* included file holds the generator's bytes unchanged.
C9_HtmlRewrittenExactly ==
    \A k \in Copied :
        \A p \in FilePaths(docTree) \cap Reached(docTree) :
            buildTree[<<NameFlavors, flavors[k]>> \o p].data
                = (IF ends_with_html(p[Len(p)])
                   THEN process_html_file(docTree[p].data)
                   ELSE docTree[p].data)

\* the superblock in the last 44 bytes of the file the reader was given
SuperblockOf(file) ==
    Superblock_from_bytes(SubSeq(file, Len(file) - SuperblockLEN + 1, Len(file)))

\* C10: Reader::new on a file whose superblock has a magic other than MAGIC
\* fails with BadMagic, and on one whose version is not VERSION fails with
\* UnsupportedVersion, whatever the ranges of the superblock are.
C10_OpenValidates ==
    pc \in {"reader", "noreader", "done"} =>
        LET sb == SuperblockOf(archive)
        IN  /\ sb.magic # MAGIC \/ sb.version # VERSION
                  => ~opened.ok /\ opened.err \in {"BadMagic", "UnsupportedVersion"}
            /\ sb.magic # MAGIC /\ sb.version = VERSION => opened.err = "BadMagic"
            /\ sb.magic = MAGIC /\ sb.version # VERSION
                  => opened.err = "UnsupportedVersion"

StrictlySorted(names) ==
    \A a, b \in 1..Len(names) : a < b => BytesLess(names[a], names[b])

\* C5: in every archive a writer produces, the entries of every directory
\* listing are in strictly increasing order of their names, so that no two
\* entries of one directory have the same name.
C5_ListingsSorted ==
    \A k \in Calls :
        calls[k].dir =>
            LET ls == parse_listing(calls[k].payload)
            IN  ls.ok /\ StrictlySorted(ListedNames(ls.val))

\* C11: on any file, Reader::new, open, read and Directory::children return
\* an error value: none of them panics.
C11_NeverPanics ==
    /\ opened.err # "panic"
    /\ lastRead.err # "panic"

\* open(p) is open(Front(p)) followed by one step on the last segment: an
\* error of the prefix is the error of the path, a file reached with a segment
\* left is NotADirectory, a listing without the segment is NotFound, and else
\* the node is that of the first entry with the name of the segment
OpenStep(p) ==
    LET r == Reader_open(reader, p)
    IN  \A at \in {Reader_open(reader, Front(p))} :
            IF ~at.ok THEN r = at
            ELSE IF ~at.val.dir THEN r = Err("NotADirectory")
            ELSE \A ch \in {children(reader, at.val.node)} :
                    LET named == {k \in 1..Len(ch.val) : ch.val[k].name = p[Len(p)]}
                    IN  IF ~ch.ok THEN r = ch
                        ELSE IF named = {} THEN r = Err("NotFound")
                        ELSE \E k \in named :
                                /\ \A j \in named : k <= j
                                /\ r = Ok([dir |-> ch.val[k].dir, node |-> ch.val[k].node])

\* the listings of the directories of the tree above the path p can be read
\* from the archive
Listable(p) ==
    \A k \in 0..(Len(p) - 1) :
        SubSeq(p, 1, k) \in DirPaths(buildTree)
            => children(reader, nodes[SubSeq(p, 1, k)]).ok

\* on the archive as it was written, open and read of the path p give what
\* the tree that was packed holds at p
OpenByTree(p) ==
    \A n \in {Reader_open(reader, p)}, r \in {Reader_read(reader, p)} :
        IF p \in DirPaths(buildTree)
        THEN n = Ok([dir |-> TRUE, node |-> nodes[p]]) /\ r = Err("IsADirectory")
        ELSE IF p \in FilePaths(buildTree)
        THEN /\ n = Ok([dir |-> FALSE, node |-> nodes[p]])
             /\ r = read_node(reader, nodes[p])
             /\ r.ok => r.val = buildTree[p].data
        ELSE IF buildTree[Deepest(buildTree, p)].dir
        THEN n = Err("NotFound") /\ r = n
        ELSE n = Err("NotADirectory") /\ r = n

\* C12: open starts at the root and takes the segments from left to right:
\* open([]) is the root; a segment that names an entry of the current
\* directory moves to the node of that entry; the first segment that names
\* none gives NotFound; a segment left after a file gives NotADirectory; and
\* read gives IsADirectory for a directory and the decoded payload of a file.
C12_PathResolution ==
    pc \in {"reader", "done"} =>
        /\ Reader_open(reader, <<>>) = Ok(root_node(reader))
        /\ \A p \in ReaderPaths \ {<<>>} : OpenStep(p)
        /\ archive = w.f =>
              \A p \in ReaderPaths : Listable(p) => OpenByTree(p)

\* a reader on an archive as written, on which the paths asked give a file
\* under a directory, a directory, NotFound and NotADirectory
C12_Witness ==
    /\ pc = "done"
    /\ archive = w.f
    /\ \A p \in ReaderPaths : Listable(p)
    /\ Reader_read(reader, <<NameD, NameA>>) = Ok(C1111)
    /\ Reader_read(reader, <<NameD>>) = Err("IsADirectory")
    /\ Reader_open(reader, <<NameA>>) = Err("NotFound")
    /\ Reader_open(reader, <<NameB, NameA>>) = Err("NotADirectory")
    /\ lastRead.path = <<NameD, NameA>>
    /\ lastRead.ok

\* the pattern matches the whole of the string s
RECURSIVE full_match(_, _)
full_match(pat, s) ==
    IF pat = <<>> THEN s = <<>>
    ELSE IF pat[1] = ReAny
    THEN \E k \in 0..Len(s) : full_match(Tail(pat), DropTo(s, k + 1))
    ELSE s # <<>> /\ s[1] = pat[1] /\ full_match(Tail(pat), Tail(s))

\* the rules of the manifest that have only regex_feature, and those of them
\* whose pattern matches the whole of the feature f
RegexRules == {r \in 1..Len(manifest.docs.flavors) :
                  /\ manifest.docs.flavors[r].regex_feature.some
                  /\ ~manifest.docs.flavors[r].name.some}

RulesMatching(f) ==
    {r \in RegexRules : full_match(manifest.docs.flavors[r].regex_feature.val, f)}

\* the flavors pushed so far for the feature f by regex rules
FlavorsOfFeature(f) ==
    {k \in 1..Len(calc.flavors) : calc.origin[k] \in RegexRules /\ calc.flavors[k].name = f}

\* C13: over all the regex rules of a manifest, a declared feature gives at
\* most one flavor, which comes from the first rule in declaration order whose
\* pattern matches the whole of the feature name; a later regex rule that
\* matches the feature gives nothing for it.
C13_RegexDedupGlobal ==
    pc = "calc_flavors" /\ calc.pc # "panic" =>
        \A n \in 1..Len(manifest.features) :
            LET f == manifest.features[n]
                turned == {r \in RulesMatching(f) : r < calc.rule}
            IN  /\ Cardinality(FlavorsOfFeature(f)) <= 1
                /\ turned # {} =>
                      \E k \in FlavorsOfFeature(f) :
                          /\ calc.origin[k] \in turned
                          /\ \A r \in turned : calc.origin[k] <= r
                /\ turned = {} => FlavorsOfFeature(f) = {}

\* the rule that the flavor k was pushed for
RuleOf(k) == manifest.docs.flavors[calc.origin[k]]

\* the rule r has exactly one of name and regex_feature
WellFormed(r) ==
    manifest.docs.flavors[r].name.some # manifest.docs.flavors[r].regex_feature.some

\* the rule r gives a base: it has a name, or its pattern matches a feature
\* that no earlier regex rule matches
GivesBase(r) ==
    \/ manifest.docs.flavors[r].name.some
    \/ \E n \in 1..Len(manifest.features) :
          /\ r \in RulesMatching(manifest.features[n])
          /\ \A q \in RulesMatching(manifest.features[n]) : r <= q

\* neither the rule r nor the manifest has a target
NoTarget(r) == ~manifest.docs.flavors[r].target.some /\ ~manifest.docs.target.some

\* C14: a flavor pushed for a rule has the features of its base, then the
\* global features, then the features of the rule, where the base of a regex
\* rule is the matched feature itself and that of a name rule is empty; its
\* target is that of the rule if set and else the global one; and a rule that
\* gives a base with neither target set ends the resolution with
\* MissingTarget, so that no list is returned.
C14_FlavorComposition ==
    pc = "calc_flavors" =>
        /\ \A k \in 1..Len(calc.flavors) :
              calc.origin[k] > 0 =>
                  /\ calc.flavors[k].features =
                         (IF calc.origin[k] \in RegexRules
                          THEN <<calc.flavors[k].name>> ELSE <<>>)
                             \o manifest.docs.features \o RuleOf(k).features
                  /\ calc.origin[k] \in RegexRules
                         => calc.origin[k] \in RulesMatching(calc.flavors[k].name)
                  /\ calc.origin[k] \notin RegexRules
                         => calc.flavors[k].name = RuleOf(k).name.val
                  /\ IF RuleOf(k).target.some
                     THEN calc.flavors[k].target = RuleOf(k).target.val
                     ELSE /\ manifest.docs.target.some
                          /\ calc.flavors[k].target = manifest.docs.target.val
        /\ calc.err = "MissingTarget" /\ manifest.docs.flavors # <<>>
              => calc.pc = "panic" /\ NoTarget(calc.rule) /\ GivesBase(calc.rule)
        /\ \A r \in 1..Len(manifest.docs.flavors) :
              r < calc.rule /\ WellFormed(r) /\ GivesBase(r) => ~NoTarget(r)

\* calc_flavors has returned a flavor of a regex rule that has features and
\* takes the global target, with global features, and a flavor of a rule with
\* its own target
C14_Witness ==
    /\ calc.pc = "returned"
    /\ manifest.docs.features # <<>>
    /\ \E k, j \in 1..Len(calc.flavors) :
          /\ calc.origin[k] \in RegexRules
          /\ RuleOf(k).features # <<>>
          /\ ~RuleOf(k).target.some
          /\ calc.origin[j] > 0
          /\ RuleOf(j).target.some
          /\ calc.flavors[j].target # calc.flavors[k].target

\* C15: a manifest without flavor rules gives exactly one flavor, default,
\* with the global features and the global target; without a global target
\* the resolution fails.
C15_DefaultFlavor ==
    pc = "calc_flavors" /\ manifest.docs.flavors = <<>> /\ calc.pc # "start" =>
        IF manifest.docs.target.some
        THEN /\ calc.pc \in {"rules", "returned"}
             /\ Len(calc.flavors) = 1
             /\ calc.flavors[1].name = NameDefault
             /\ calc.flavors[1].features = manifest.docs.features
             /\ calc.flavors[1].target = manifest.docs.target.val
        ELSE calc.pc = "panic" /\ calc.flavors = <<>>

\* calc_flavors has returned for a manifest without rules that has global
\* features
C15_Witness ==
    /\ calc.pc = "returned"
    /\ manifest.docs.flavors = <<>>
    /\ manifest.docs.features # <<>>

\* the rules of the manifest with both of name and regex_feature, or neither
IllFormed == {r \in 1..Len(manifest.docs.flavors) : ~WellFormed(r)}

\* calc_flavors has ended, by a return or by a panic
Ended == calc.pc \in {"returned", "panic"} \/ pc = "cargo"

\* C16: a manifest with a rule that has both of name and regex_feature, or
\* neither, makes the resolution fail: no flavor list is returned and the
\* generator is not invoked.  It ends with InvalidFlavor at the first such
\* rule when the rules before it are valid, whatever follows; a rule before
\* it that gives a base with no target ends it there with MissingTarget.
C16_InvalidFlavorFatal ==
    IllFormed # {} =>
        /\ calc.pc # "returned"
        /\ pc # "cargo"
        /\ Ended =>
              LET first == CHOOSE r \in IllFormed : \A q \in IllFormed : r <= q
                  before == {r \in 1..(first - 1) : GivesBase(r) /\ NoTarget(r)}
              IN  IF before = {}
                  THEN calc.err = "InvalidFlavor" /\ calc.rule = first
                  ELSE /\ calc.err = "MissingTarget"
                       /\ calc.rule \in before
                       /\ \A r \in before : calc.rule <= r

\* the resolution has ended with InvalidFlavor at a rule that follows a rule
\* for which a flavor was pushed
C16_Witness ==
    /\ calc.pc = "panic"
    /\ calc.err = "InvalidFlavor"
    /\ calc.rule > 1
    /\ calc.flavors # <<>>

\* C17: the names of the flavors that calc_flavors returns are pairwise
\* distinct.
C17_NamesUnique ==
    calc.pc = "returned" =>
        \A k, j \in 1..Len(calc.flavors) :
            k # j => calc.flavors[k].name # calc.flavors[j].name

\* the names that the file filter leaves out
Excluded(name) ==
    \/ name = NameImplementors
    \/ name # <<>> /\ name[1] = 95
    \/ name = NameBangHtml

\* the paths of the archive: the root, and for each listing that was written
\* the path of its directory followed by each name listed
ArchivePaths ==
    {<<>>} \cup
    UNION {LET ch == parse_listing(calls[k].payload)
           IN  {calls[k].path \o <<ch.val[n].name>> : n \in 1..Len(ch.val)} :
              k \in {c \in Calls : calls[c].dir}}

\* the path p of the generator's output, under the flavor number k
UnderFlavor(k, p) == <<NameFlavors, flavors[k]>> \o p

\* C18: in the archive of a build no path under flavors/<name>/ has a
\* component that the filter leaves out, so that nothing under a directory
\* left out is there; and every file and directory of the generator's output
\* with no such component is there, under every flavor.
C18_FilterApplied ==
    pc = "sealed" =>
        /\ \A q \in ArchivePaths :
              Len(q) > 2 /\ q[1] = NameFlavors
                  => \A n \in 3..Len(q) : ~Excluded(q[n])
        /\ \A k \in 1..Len(flavors) :
              \A p \in DOMAIN docTree :
                  UnderFlavor(k, p) \in ArchivePaths
                      <=> \A n \in 1..Len(p) : ~Excluded(p[n])

\* an archive is sealed for an output with a file that is kept, a directory
\* left out that holds a file with a name that is not left out, and a file
\* left out
C18_Witness ==
    /\ pc = "sealed"
    /\ \E p, q, r \in DOMAIN docTree :
          /\ ~docTree[p].dir /\ \A n \in 1..Len(p) : ~Excluded(p[n])
          /\ docTree[q].dir /\ Len(q) = 1 /\ Excluded(q[1])
          /\ Len(r) = 2 /\ r[1] = q[1] /\ ~Excluded(r[2])
          /\ UnderFlavor(1, p) \in ArchivePaths
          /\ UnderFlavor(1, r) \notin ArchivePaths

\* the flavors processed so far: by the loop of run, or by the workers of
\* bin/builder
Processed == (i - 1) + Len(zup_flavors)

\* the names of the generator's output in the crate directory
CrateNames == {p[Len(p)] : p \in DOMAIN docTree \ {<<>>}}

\* C19: static.files is copied at most once; never without a static-output
\* directory; with one, exactly once as soon as a flavor has been processed,
\* during the first flavor processed, however many flavors and workers there
\* are; and what is under flavors/<name>/ comes from the crate directory of the
\* generator's output, which static.files is not part of.
C19_StaticsCopiedOnce ==
    /\ statics.copies <= 1
    /\ ~statics.path => statics.copies = 0
    /\ statics.path => (statics.copies = 1 <=> Processed >= 1)
    /\ statics.copies = 1 => statics.at = 1
    /\ \A q \in DOMAIN buildTree :
          Len(q) > 2 /\ q[1] = NameFlavors => DropTo(q, 3) \in DOMAIN docTree
    /\ pc = "workers" =>
          \A id \in DOMAIN zup_tree.nodes :
              \A n \in 1..Len(zup_tree.nodes[id].entries) :
                  zup_tree.nodes[id].entries[n].name \in CrateNames

\* run has processed two flavors with a static-output directory
C19_Witness ==
    /\ pc = "process"
    /\ i = 3
    /\ statics.path
    /\ statics.copies = 1

\* the segments of the path asked: the pieces between the slashes that are
\* neither empty nor ".", a ".." taking back the piece before it
Asked == path_segments(split(req.raw_path, Slash), <<>>)

\* the archive of the crate and version asked
AskedZup == site.crates[Asked[1]][Asked[2]]

\* the flavors of that archive, sorted
AskedFlavors == SortNames(ChildNames(AskedZup, <<NameFlavors>>))

\* the last value that the Cookie header gives for the key k, if any
CookieValues(k) ==
    {req.cookie[n][2] : n \in {m \in 1..Len(req.cookie) :
        /\ req.cookie[m][1] = k
        /\ \A l \in (m + 1)..Len(req.cookie) : req.cookie[l][1] # k}}

\* C20: a GET for /<pkg>/<version>/<flavor>/<rest> on an archive that has no
\* such flavor is answered with 302 to /<pkg>/<version>/<f>/<rest>, where f is
\* the flavor that the cookie crate-<pkg>-flavor names if the archive has it,
\* and else the first of the sorted flavors.  (A rest that begins with the
\* crate identifier is left aside: the handler strips that segment first.)
C20_MissingFlavorRedirect ==
    (/\ pc = "response"
     /\ req.method = "GET"
     /\ Len(Asked) >= 3
     /\ Asked[1] \in DOMAIN site.crates
     /\ Asked[2] \in DOMAIN site.crates[Asked[1]]
     /\ Asked[3] \notin ChildNames(AskedZup, <<NameFlavors>>)
     /\ Len(Asked) >= 4 => Asked[4] # replace_dash(Asked[1]))
        => \E f \in ChildNames(AskedZup, <<NameFlavors>>) :
              /\ IF CookieValues(cookie_flavor(Asked[1]))
                        \cap ChildNames(AskedZup, <<NameFlavors>>) # {}
                 THEN f \in CookieValues(cookie_flavor(Asked[1]))
                 ELSE f = AskedFlavors[1]
              /\ resp.status = 302
              /\ resp.location = url4(Asked[1], Asked[2], f, join(DropTo(Asked, 4), Slash))

\* the file of the archive that the path asked names
AskedFile == <<NameFlavors>> \o DropTo(Asked, 3)

\* the attribute values of a page: what stands between the quotes of each
\* src="..." and href="..."
RECURSIVE AttrValues(_)
AttrValues(data) ==
    IF Len(data) < 5 THEN {}
    ELSE LET close == find(DropTo(data, 4), Quote)
         IN  IF /\ data[1] \in {TokSrcAttr, TokHrefAttr}
                /\ data[2] = TokEq /\ data[3] = Quote /\ data[4] # Quote /\ close # 0
             THEN {SubSeq(data, 4, close + 2)}
                     \cup The({AttrValues(d) : d \in {DropTo(data, close + 4)}})
             ELSE The({AttrValues(d) : d \in {Tail(data)}})

\* a GET for a page of the archive
PageAsked ==
    /\ pc = "response"
    /\ req.method = "GET"
    /\ Len(Asked) >= 4
    /\ Asked[4] # replace_dash(Asked[1])
    /\ Asked[1] \in DOMAIN site.crates
    /\ Asked[2] \in DOMAIN site.crates[Asked[1]]
    /\ AskedFile \in DOMAIN AskedZup
    /\ ~AskedZup[AskedFile].dir
    /\ IsSuffix(DotHtml, Asked[Len(Asked)])

\* C21: a page of the archive is served, whatever the shape of the sentinels
\* in it, and no src or href value of the page served begins with a
\* /__DOCSERVER_ sentinel.
C21_SrcLinksResolved ==
    PageAsked =>
        /\ resp.status = 200
        /\ \A v \in AttrValues(resp.body) : v[1] \notin {SentSrcLink, SentDepLink}

\* C22: when a pack with compression has ended, any other pack of the same
\* directory with the same configuration writes the same bytes, whatever
\* dictionary its own shuffle of the files leads to.
C22_HashStable ==
    (pc = "sealed" /\ w.comp.on)
        => \A dict \in Dictionaries(buildTree) :
              pack(buildTree, WriterCompress(dict, w.comp.zok)) = archive

\* the last names of the paths of the build directory
BuildNames == {q[Len(q)] : q \in DOMAIN buildTree \ {<<>>}}

\* where the entry of the q-th name begins in the listing of the names
RECURSIVE EntryAt(_, _)
EntryAt(names, q) ==
    IF q = 1 THEN 1 ELSE EntryAt(names, q - 1) + 1 + Len(names[q - 1]) + NodeLEN

\* C23: a pack ends with the superblock written only when every name is at
\* most 255 bytes long, and then every listing holds each name after one byte
\* that is its length; once the name of an entry written is 256 bytes or
\* longer the build is aborted, and it never writes a superblock.
C23_NameLengthBound ==
    /\ pc = "sealed" =>
         /\ \A n \in BuildNames : Len(n) <= 255
         /\ \A k \in Calls : calls[k].dir =>
               LET ch == parse_listing(calls[k].payload)
                   names == SortNames(ChildNames(buildTree, calls[k].path))
               IN  /\ ch.ok
                   /\ ListedNames(ch.val) = names
                   /\ \A q \in 1..Len(names) :
                         calls[k].payload[EntryAt(names, q)] = Len(names[q])
    /\ pc = "panic" =>
         /\ \E q \in DOMAIN nodes : q # <<>> /\ Len(q[Len(q)]) >= 256
         /\ archive = <<>>
    /\ (pc = "write" /\ \E q \in DOMAIN nodes : q # <<>> /\ Len(q[Len(q)]) >= 256) => FALSE

\* a pack has ended on a directory with a name of 255 bytes
C23_Witness == pc = "sealed" /\ Name255 \in BuildNames

\* the calls of write_node for a file that is new, under a compressor that
\* runs, whose compressed form is exactly one byte shorter than the file
OneByteShorter ==
    {k \in Calls :
        /\ ~calls[k].known
        /\ ~calls[k].dir
        /\ w.comp.on /\ w.comp.zok
        /\ Len(zstd_compress(calls[k].payload, w.comp.dict)) + 1 = Len(calls[k].payload)}

\* C24, as the code has it: a file that is exactly 1 byte longer than its
\* compressed form is stored compressed, with the COMPRESSED flag set and a
\* range one byte shorter than the file.
C24_OneByteShorterStoredCompressed ==
    \A k \in OneByteShorter :
        /\ calls[k].stored.flags = FLAG_COMPRESSED
        /\ calls[k].stored.range.len + 1 = Len(calls[k].payload)
        /\ BytesAt(calls[k].stored.range) = zstd_compress(calls[k].payload, w.comp.dict)

\* a sealed archive with such a file
C24_Witness == pc = "sealed" /\ OneByteShorter # {}

\* C24, as stated: a file that is exactly 1 byte longer than its compressed
\* form is stored uncompressed, with the COMPRESSED flag unset.
C24_OneByteLargerStoredVerbatim ==
    \A k \in OneByteShorter :
        /\ calls[k].stored.flags = 0
        /\ BytesAt(calls[k].stored.range) = calls[k].payload

\* the generator has not exited with success
BeforeDocs == pc \in {"calc_flavors", "cargo", "exit1"}

\* one spawn, and the k-th line is for the k-th flavor that calc_flavors
\* returned, with the artifact directory <cargo_out_dir>/<k - 1>
OneBatch ==
    /\ batch.spawned = 1
    /\ Len(batch.lines) = Len(calc.flavors)
    /\ \A k \in 1..Len(calc.flavors) :
          /\ batch.lines[k].artifact_dir = k - 1
          /\ batch.lines[k].features = calc.flavors[k].features
          /\ batch.lines[k].target = calc.flavors[k].target
          /\ flavors[k] = calc.flavors[k].name

\* C25: the generator is spawned once, with one line per flavor in the order
\* of the flavor list, the k-th with the artifact directory numbered k - 1;
\* until it has exited with success nothing is copied, no directory is
\* created under the build directory and the Writer has written nothing;
\* after a failure the run stands still, so no archive is ever written.
C25_GeneratorBeforePack ==
    /\ [](/\ batch.spawned <= 1
          /\ pc = "calc_flavors" => batch = NoBatch
          /\ pc # "calc_flavors" => OneBatch
          /\ BeforeDocs =>
                /\ buildTree = EmptyTree
                /\ i = 1
                /\ w = NewWriter(NoCompress)
                /\ calls = <<>>
                /\ archive = <<>>)
    /\ [][/\ pc = "exit1" => pc' = "exit1"
          /\ pc' = "exit1" => pc \in {"cargo", "exit1"}
          /\ (pc' = "process" /\ pc # "process") => pc = "cargo"
          /\ (pc' \in {"write", "sealed"} /\ pc = "calc_flavors") => FALSE
          /\ batch' # batch => pc = "calc_flavors" /\ pc' = "cargo"]_vars

\* an archive was sealed for two flavors or more
C25_Witness == pc = "sealed" /\ Len(batch.lines) >= 2 /\ Len(flavors) = Len(batch.lines)

\* the number of entries of the sequence q that are f, under the reading by
Count(q, f, by(_)) == Cardinality({k \in DOMAIN q : by(q[k]) = f})

FlavorOfWorker(wk) == wk.flavor

NameOfEntry(e) == e.name

Same(x) == x

\* C26: whatever the number of workers and the interleaving, at most one
\* worker is in the steps that change the Tree and the list of flavors;
\* every flavor is in the channel, with one worker, or in the list, once in
\* all and at most once in the list; only the worker that holds the guard
\* changes the Tree and the list; and when the workers have ended and the
\* Tree is written, the list holds every flavor exactly once.
C26_SerialisedPacking ==
    /\ [](/\ Cardinality({k \in DOMAIN worker : InM(worker[k])}) <= 1
          /\ pc = "workers" =>
                \A f \in Elems(flavors) :
                    /\ Count(rx, f, Same) + Count(worker, f, FlavorOfWorker)
                          + Count(zup_flavors, f, NameOfEntry) = 1
          /\ pc = "treewrite" =>
                /\ Len(zup_flavors) = Len(flavors)
                /\ \A f \in Elems(flavors) : Count(zup_flavors, f, NameOfEntry) = 1)
    /\ [][(pc' = "workers" /\ <<zup_tree, zup_flavors>>' # <<zup_tree, zup_flavors>>)
             => \E k \in DOMAIN worker :
                   /\ InM(worker[k])
                   /\ \A j \in DOMAIN worker \ {k} : worker'[j] = worker[j] /\ ~InM(worker[j])]_vars

\* the entries of the listing that the call k of write_node was given
EntriesOf(k) == parse_listing(calls[k].payload).val

\* the end of a range
RangeEnd(r) == r.offset + r.len

\* C27 as stated: every entry of the listing of a directory refers to a Node
\* whose range ends at or before the offset of the range of the directory's
\* own Node, whether or not the listing was stored anew.
C27_EntriesBeforeDirRange ==
    \A k \in Calls :
       calls[k].dir =>
          \A e \in 1..Len(EntriesOf(k)) :
             RangeEnd(EntriesOf(k)[e].node.range) <= nodes[calls[k].path].range.offset

\* C27: every entry of the listing of a directory refers to a Node whose
\* range ends at or before the offset at which the listing is handed to
\* write_node; a listing that is stored anew starts at that offset, so its
\* entries end at or before its own range; a listing whose hash is known takes
\* the range of the earlier payload, and no entry of it that is a directory
\* has the Node of the directory itself.
C27_EntriesBeforeListingWrite ==
    \A k \in Calls :
       calls[k].dir =>
          \A e \in 1..Len(EntriesOf(k)) :
             LET n == EntriesOf(k)[e].node
             IN  /\ RangeEnd(n.range) <= calls[k].before
                 /\ ~calls[k].known => RangeEnd(n.range) <= nodes[calls[k].path].range.offset
                 /\ n # nodes[calls[k].path]

\* a sealed archive with a directory whose listing took the range of a file
\* written before the directory's entry
C27_Witness ==
    /\ pc = "sealed"
    /\ \E k \in Calls :
          /\ calls[k].dir /\ calls[k].known /\ EntriesOf(k) # <<>>
          /\ RangeEnd(EntriesOf(k)[1].node.range) > nodes[calls[k].path].range.offset
          /\ EntriesOf(k)[1].node.range # nodes[calls[k].path].range

\* the hops a client is followed for
MaxHops == 6

\* the request that follows a redirect
Followed(request, r) == [request EXCEPT !.method = "GET", !.raw_path = r.location]

\* following the Location of each 302 from the request, a response that is
\* no 302 comes after at most n hops
RECURSIVE AnsweredWithin(_, _, _)
AnsweredWithin(s, request, n) ==
    The({IF r.status # 302 THEN TRUE
         ELSE IF n = 0 THEN FALSE
         ELSE AnsweredWithin(s, Followed(request, r), n - 1) :
         r \in {serve_inner(s, request)}})

\* C28: from any request, following the Location of each 302 response, a
\* response that is no 302 is reached within MaxHops hops; and a GET for
\* /<pkg>/<version>/<flavor>/<rest> whose flavor is in the archive and whose
\* rest names nothing under it is answered 404.  (A rest that begins with the
\* crate identifier is left aside: the handler strips that segment first.)
C28_RedirectsTerminate ==
    /\ pc = "request" => AnsweredWithin(site, req, MaxHops)
    /\ (/\ pc = "response"
        /\ req.method = "GET"
        /\ Len(Asked) >= 4
        /\ Asked[1] \in DOMAIN site.crates
        /\ Asked[2] \in DOMAIN site.crates[Asked[1]]
        /\ Asked[3] \in ChildNames(AskedZup, <<NameFlavors>>)
        /\ Asked[4] # replace_dash(Asked[1])
        /\ zup_read(AskedZup, AskedFile) = Err("NotFound"))
           => resp.status = 404

\* C29: after unzup of the archive into a destination that did not exist,
\* every path of the packed directory is in the destination, a directory as
\* a directory and a file with the bytes that read(path) returns, paths that
\* share a stored Node with an earlier path included; so the destination has
\* the paths and the contents of the packed directory.  (An archive that
\* was compressed with an empty dictionary is left aside: its reader fails on
\* every compressed node.)
C29_ExtractionComplete ==
    pc = "unzupped" /\ (w.comp.on => w.comp.dict # <<>>) =>
       /\ ~destination.panic
       /\ \A p \in DOMAIN buildTree :
             /\ p \in DOMAIN destination.tree
             /\ destination.tree[p].dir <=> buildTree[p].dir
             /\ ~buildTree[p].dir =>
                   Ok(destination.tree[p].data) = Reader_read(reader, p)
       /\ destination.tree = buildTree

\* the pieces of the path asked, between the slashes
Pieces == split(req.raw_path, Slash)

\* the segment list after the first n pieces
SegmentsAfter(n) == path_segments(SubSeq(Pieces, 1, n), <<>>)

\* the name that serve_static is given
StaticKey == join(Tail(Asked), Slash)

\* C30: the segment list of every request path holds no empty segment, no
\* ".", no ".." and no slash; each piece of the path adds itself to the list,
\* except that an empty piece or "." leaves the list as it is and ".." takes
\* its last segment away, or nothing when the list is empty; so the name
\* looked up under static is relative and has no ".." in it, and what is read
\* from an archive is a path under its directory flavors, and a 200 response
\* is made from that file.
C30_PathNormalised ==
    /\ \A k \in 1..Len(Asked) :
          /\ Asked[k] \notin {<<>>, NameDot, NameDotDot}
          /\ \A j \in 1..Len(Asked[k]) : Asked[k][j] # Slash
    /\ Asked = SegmentsAfter(Len(Pieces))
    /\ \A n \in 1..Len(Pieces) :
          SegmentsAfter(n) =
             (IF Pieces[n] \in {<<>>, NameDot} THEN SegmentsAfter(n - 1)
              ELSE IF Pieces[n] = NameDotDot
              THEN SubSeq(SegmentsAfter(n - 1), 1, Len(SegmentsAfter(n - 1)) - 1)
              ELSE Append(SegmentsAfter(n - 1), Pieces[n]))
    /\ Asked # <<>> /\ Asked[1] = NameStatic =>
          /\ StaticKey # <<>> => StaticKey[1] # Slash
          /\ \A k \in 1..Len(split(StaticKey, Slash)) :
                split(StaticKey, Slash)[k] \notin {NameDot, NameDotDot}
          /\ pc = "response" /\ resp.status = 200 =>
                resp.file = <<NameStatic, StaticKey>> /\ StaticKey \in site.static
    /\ pc = "response" /\ resp.status = 200 /\ Asked[1] # NameStatic =>
          /\ resp.file = AskedFile
          /\ resp.file[1] = NameFlavors
          /\ resp.file \in DOMAIN AskedZup
          /\ \A k \in 1..Len(resp.file) : resp.file[k] \notin {<<>>, NameDot, NameDotDot}

\* a static file served for a path that begins with ".."
C30_Witness ==
    /\ pc = "response"
    /\ resp.status = 200
    /\ Pieces[2] = NameDotDot
    /\ Asked[1] = NameStatic

=============================================================================
